---------------------------- MODULE Spec2Model ----------------------------
(***************************************************************************)
(* A model of conduition/zkcp: the sudoku board codec (zkvm/common/src/    *)
(* sudoku.rs), the attested guest programs (zkvm/*/src/main.rs), and the   *)
(* host-side proof engines (src/proofs/*.rs).                              *)
(*                                                                         *)
(* Indexing.  Rust arrays are 0-based, TLA+ sequences 1-based: cell i of a *)
(* Rust array a is a[i + 1] here, written At(a, i).                        *)
(*                                                                         *)
(* Integers.  TLC's integers are 32-bit signed.  A u32 read from four      *)
(* big-endian bytes is therefore kept as two 16-bit halves (hi, lo) until  *)
(* the code has compared it with 999_999_999; a u32 that the code computes *)
(* from cells of at most MaxCell never reaches 2^31.                       *)
(***************************************************************************)
EXTENDS Integers, Sequences, FiniteSets, TLC

VARIABLES
    pc,            \* position of the harness: which operation ran last
    board,         \* a SudokuBoard argument ([u8; 81])
    mask,          \* a mask argument ([u8; 81])
    compact,       \* a CompactSudokuBoard argument ([u8; 36])
    compressed,    \* result of compress_board, NoBytes before it ran
    decompressed,  \* result of decompress_board: [tag, board]
    puzzle,        \* result of mask_sudoku_solution: [tag, board]
    valid,         \* result of is_valid_sudoku_solution: "none", TRUE, FALSE
    solves,        \* result of solves_sudoku_puzzle: "none", TRUE, FALSE
    program,       \* the Program a proof engine is instantiated with
    secretKey,     \* the secret_key argument of prove_custom (a Scalar)
    preimage,      \* the preimage argument of the preimage engine ([u8; 32])
    aux_input,     \* the aux_input argument of prove_custom (&[u8])
    oracle_ok,     \* whether the prover itself succeeds when it is invoked
    origin,        \* how the proof record came about
    proveRet,      \* result of prove_custom: [tag, err, proof, oracle_calls]
    record,        \* the proof record verify() is called on
    verifyRet,     \* result of verify: [ret, oracle_calls]
    tamper,        \* the field of the record replaced after it verified
    env_ok,        \* whether ExecutorEnv::builder()..build() succeeded in the call
    oracle_later,  \* whether the prover would succeed if it were asked again
    readRet,       \* what the accessors of the record returned
    secret,        \* the argument of decrypt_solution ([u8; 32])
    decryptRet,    \* result of decrypt_solution: [tag, err, board, steps]
    schnorrArgs,   \* the arguments of schnorr_signature (three [u8; 32])
    schnorrSig     \* result of schnorr_signature, NoBytes before it ran

codecVars == <<board, mask, compact, compressed, decompressed, puzzle, valid, solves>>
engineVars ==
    <<program, secretKey, preimage, aux_input, oracle_ok, origin, proveRet, record,
      verifyRet, tamper>>
moreVars == <<env_ok, oracle_later, readRet, secret, decryptRet, schnorrArgs, schnorrSig>>
vars == <<pc, codecVars, engineVars, moreVars>>

-----------------------------------------------------------------------------
(* Bounds of the input enumeration.                                        *)

\* Cells written into input boards range over 0..MaxCell (10 is the first
\* value that is not a decimal digit).
MaxCell == 10
\* Bytes written into input masks range over 0..MaxMaskByte (2 is the first
\* value that is neither zero nor one).
MaxMaskByte == 2

(* Program constants.                                                      *)
BoardLen == 81
CompactLen == 36
MaxRowValue == 999999999
MaxByte == 255

-----------------------------------------------------------------------------
(* Helpers for Rust's 0-based indexing and slices.                         *)

At(a, i) == a[i + 1]

\* a[from..to] (to exclusive)
Slice(a, from, to) == [k \in 1..(to - from) |-> a[from + k]]

NoBytes == <<>>
NoResult == [tag |-> "none", board |-> <<>>]
NoReadRet == [tag |-> "none"]
NoDecryptRet == [tag |-> "none", err |-> "", board |-> <<>>, steps |-> <<>>]
NoSchnorrArgs == [secret_key |-> <<>>, secret_nonce |-> <<>>, challenge |-> <<>>]

-----------------------------------------------------------------------------
(* zkvm/common/src/sudoku.rs                                               *)

\* u32::to_be_bytes, for values below 2^31
to_be_bytes(v) ==
    << v \div 16777216, (v \div 65536) % 256, (v \div 256) % 256, v % 256 >>

\* u32::from_be_bytes, as the two 16-bit halves of the value
from_be_bytes(b) == [hi |-> b[1] * 256 + b[2], lo |-> b[3] * 256 + b[4]]

\* x > c on u32, x given by halves and c an integer constant
U32GreaterThan(x, c) ==
    \/ x.hi > c \div 65536
    \/ x.hi = c \div 65536 /\ x.lo > c % 65536

\* the integer value of a u32 given by halves (used only once the value is
\* known to be at most MaxRowValue)
U32Value(x) == x.hi * 65536 + x.lo

\* the inner loop of compress_board: for j in 0..9 { rep = rep * 10 + cell }
RECURSIVE CompressRow(_, _, _, _)
CompressRow(b, row_start, j, row_u32_rep) ==
    IF j = 9 THEN row_u32_rep
    ELSE CompressRow(b, row_start, j + 1, row_u32_rep * 10 + At(b, row_start + j))

\* compress_board with the row serialized least significant byte first
compress_board_le(b) ==
    [k \in 1..CompactLen |->
        to_be_bytes(CompressRow(b, ((k - 1) \div 4) * 9, 0, 0))[4 - ((k - 1) % 4)]]

compress_board(b) ==
    [k \in 1..CompactLen |->
        to_be_bytes(CompressRow(b, ((k - 1) \div 4) * 9, 0, 0))[((k - 1) % 4) + 1]]

\* the inner loop of decompress_board, for j in (0..9).rev(): the last cell
\* is rep % 10, the cells before it come from rep / 10
RECURSIVE DecompressRow(_, _)
DecompressRow(row_u32_rep, n) ==
    IF n = 0 THEN <<>>
    ELSE Append(DecompressRow(row_u32_rep \div 10, n - 1), row_u32_rep % 10)

\* the row value of row i of a compact board
CompactRow(c, i) == from_be_bytes(Slice(c, i * 4, i * 4 + 4))

MalleableRow(c, i) == U32GreaterThan(CompactRow(c, i), MaxRowValue)

DecompressCells(c) ==
    [k \in 1..BoardLen |->
        DecompressRow(U32Value(CompactRow(c, (k - 1) \div 9)), 9)[((k - 1) % 9) + 1]]

\* decompress_board rejecting a row of exactly 999_999_999 too
decompress_board_ge(c) ==
    IF \E i \in 0..8 : U32GreaterThan(CompactRow(c, i), MaxRowValue - 1)
    THEN [tag |-> "Err", board |-> <<>>]
    ELSE [tag |-> "Ok", board |-> DecompressCells(c)]

\* decompress_board with a row limit of ten digits instead of nine
decompress_board_loose(c) ==
    IF \E i \in 0..8 : U32GreaterThan(CompactRow(c, i), MaxRowValue + 1000000000)
    THEN [tag |-> "Err", board |-> <<>>]
    ELSE [tag |-> "Ok", board |-> DecompressCells(c)]

decompress_board(c) ==
    IF \E i \in 0..8 : MalleableRow(c, i)
    THEN [tag |-> "Err", board |-> <<>>]
    ELSE [tag |-> "Ok", board |-> DecompressCells(c)]

\* check_valid_digit: the result and the updated seen array
check_valid_digit(digit, seen) ==
    IF ~(digit >= 1 /\ digit <= 9) THEN [ok |-> FALSE, seen |-> seen]
    ELSE IF seen[digit] THEN [ok |-> FALSE, seen |-> seen]
    ELSE [ok |-> TRUE, seen |-> [seen EXCEPT ![digit] = TRUE]]

\* one `for` loop over nine cells with a fresh seen array; cells is the
\* sequence of the nine (0-based) cell indexes the loop visits
RECURSIVE CheckCells(_, _, _, _)
CheckCells(b, cells, k, seen) ==
    IF k > 9 THEN TRUE
    ELSE LET r == check_valid_digit(At(b, cells[k]), seen)
         IN  IF ~r.ok THEN FALSE ELSE CheckCells(b, cells, k + 1, r.seen)

NoneSeen == [d \in 1..9 |-> FALSE]

RowCells(row) == [k \in 1..9 |-> row * 9 + (k - 1)]
ColumnCells(column) == [k \in 1..9 |-> (k - 1) * 9 + column]
GridCells(grid) ==
    LET grid_row_start == (grid \div 3) * 3
        grid_col_start == (grid % 3) * 3
    IN  [k \in 1..9 |->
            (grid_row_start + ((k - 1) \div 3)) * 9 + grid_col_start + ((k - 1) % 3)]

\* is_valid_sudoku_solution without its third loop, over the subgrids
is_valid_sudoku_solution_no_grids(b) ==
    /\ \A row \in 0..8 : CheckCells(b, RowCells(row), 1, NoneSeen)
    /\ \A column \in 0..8 : CheckCells(b, ColumnCells(column), 1, NoneSeen)

is_valid_sudoku_solution(b) ==
    /\ \A row \in 0..8 : CheckCells(b, RowCells(row), 1, NoneSeen)
    /\ \A column \in 0..8 : CheckCells(b, ColumnCells(column), 1, NoneSeen)
    /\ \A grid \in 0..8 : CheckCells(b, GridCells(grid), 1, NoneSeen)

\* the panic of mask_sudoku_solution: some mask byte is neither 0 nor 1
InvalidMask(m) == \E i \in 0..80 : At(m, i) # 0 /\ At(m, i) # 1

\* mask_sudoku_solution clearing the cells the mask keeps, keeping the others
mask_sudoku_solution_inverted(solution, m) ==
    IF InvalidMask(m) THEN [tag |-> "Panic", board |-> <<>>]
    ELSE [tag |-> "Ok",
          board |-> [k \in 1..BoardLen |-> IF m[k] = 0 THEN solution[k] ELSE 0]]

\* mask_sudoku_solution: puzzle = *solution, then for i in 0..81 the cell is
\* cleared where mask[i] == 0; the loop panics at a byte that is not 0 or 1
mask_sudoku_solution(solution, m) ==
    IF InvalidMask(m) THEN [tag |-> "Panic", board |-> <<>>]
    ELSE [tag |-> "Ok",
          board |-> [k \in 1..BoardLen |-> IF m[k] = 0 THEN 0 ELSE solution[k]]]

solves_sudoku_puzzle(solution, p) ==
    \A i \in 0..80 : At(p, i) = 0 \/ At(solution, i) = At(p, i)

-----------------------------------------------------------------------------
(* The primitives the crates provide: secp256k1 scalars and points,        *)
(* SHA-256, ChaCha20.                                                      *)
(*                                                                         *)
(* The group is scaled down: the curve order is the prime CurveOrder       *)
(* instead of the 256-bit order of secp256k1, a point k*G is represented   *)
(* by k (0 is the point at infinity), and the 32-byte big-endian encodings *)
(* keep their length, so that every offset of the journals is the code's.  *)
(* SHA-256 is a fixed mixing function of its input bytes: it is not        *)
(* collision-free (no function into a finite model is), but changing one   *)
(* byte below CurveOrder of its input always changes the digest, and with  *)
(* it the scalar the digest reduces to.                                    *)

\* SECP256K1_CURVE_ORDER, scaled to the largest prime below 2^8
CurveOrder == 251

ScalarLen == 32
ChaChaNonceLen == 12

\* the 32-byte big-endian encoding of an integer below 2^24
Bytes32(v) ==
    [k \in 1..ScalarLen |->
        IF k = ScalarLen THEN v % 256
        ELSE IF k = ScalarLen - 1 THEN (v \div 256) % 256
        ELSE IF k = ScalarLen - 2 THEN v \div 65536
        ELSE 0]

RECURSIVE PowMod(_, _, _)
PowMod(b, e, m) ==
    IF e = 0 THEN 1 % m
    ELSE LET h == PowMod(b, e \div 2, m)
         IN  IF e % 2 = 0 THEN (h * h) % m ELSE (((h * h) % m) * (b % m)) % m

\* sum of s[k] * w[k] for k in lo..hi, modulo m
RECURSIVE WeightedSum(_, _, _, _, _)
WeightedSum(s, w, lo, hi, m) ==
    IF lo > hi THEN 0
    ELSE IF lo = hi THEN ((s[lo] % m) * w[lo]) % m
    ELSE LET mid == (lo + hi) \div 2
         IN  (WeightedSum(s, w, lo, mid, m) + WeightedSum(s, w, mid + 1, hi, m)) % m

\* 256^(32-k) modulo the curve order and modulo the curve order less one
PlaceValuesModOrder == [k \in 1..ScalarLen |-> PowMod(256, ScalarLen - k, CurveOrder)]
PlaceValuesModOrderLessOne ==
    [k \in 1..ScalarLen |-> PowMod(256, ScalarLen - k, CurveOrder - 1)]

\* secp::MaybeScalar::reduce_from: the big-endian integer z, as z % n
MaybeScalar_reduce_from(z_bytes) ==
    WeightedSum(z_bytes, PlaceValuesModOrder, 1, ScalarLen, CurveOrder)

\* secp::Scalar::reduce_from: the big-endian integer z, as (z % (n-1)) + 1
Scalar_reduce_from(z_bytes) ==
    WeightedSum(z_bytes, PlaceValuesModOrderLessOne, 1, ScalarLen, CurveOrder - 1) + 1

\* secp::MaybeScalar::try_from(&[u8]): an error unless the big-endian integer
\* is below the curve order
MaybeScalar_try_from(bytes) ==
    IF Len(bytes) # ScalarLen THEN [tag |-> "Err", value |-> 0]
    ELSE IF \E k \in 1..(ScalarLen - 1) : bytes[k] # 0 THEN [tag |-> "Err", value |-> 0]
    ELSE IF bytes[ScalarLen] >= CurveOrder THEN [tag |-> "Err", value |-> 0]
    ELSE [tag |-> "Ok", value |-> bytes[ScalarLen]]

\* Scalar::serialize and MaybeScalar::serialize
Scalar_serialize(s) == Bytes32(s)

\* Point::serialize: the 33-byte compressed encoding
Point_serialize(p) == <<2>> \o Bytes32(p)

\* scalar * G, point * scalar and point + point, on discrete logarithms
ScalarTimesG(s) == s % CurveOrder
PointTimesScalar(p, s) == (p * s) % CurveOrder
PointPlus(p1, p2) == (p1 + p2) % CurveOrder

\* position k of a hashed message weighs ((k-1) % (CurveOrder-1)) + 1
RECURSIVE MixBytes(_, _, _)
MixBytes(s, lo, hi) ==
    IF lo > hi THEN 0
    ELSE IF lo = hi THEN ((s[lo] % CurveOrder) * (((lo - 1) % (CurveOrder - 1)) + 1)) % CurveOrder
    ELSE LET mid == (lo + hi) \div 2
         IN  (MixBytes(s, lo, mid) + MixBytes(s, mid + 1, hi)) % CurveOrder

\* Sha256::new().chain_update(..)...finalize() on the concatenated message
Sha256(message) ==
    LET core == (Len(message) + MixBytes(message, 1, Len(message))) % CurveOrder
    IN  [j \in 1..ScalarLen |-> (core + 7 * (j - 1)) % CurveOrder]

RECURSIVE XorBits(_, _, _)
XorBits(a, b, n) ==
    IF n = 0 THEN 0
    ELSE ((a + b) % 2) + 2 * XorBits(a \div 2, b \div 2, n - 1)

\* ChaCha20::new(key, nonce).apply_keystream(data): data xor the keystream
ChaChaKeystream(key, nonce, k) == Sha256(key \o nonce \o <<k>>)[1]
apply_keystream(key, nonce, data) ==
    [k \in 1..Len(data) |-> XorBits(data[k], ChaChaKeystream(key, nonce, k), 8)]

-----------------------------------------------------------------------------
(* zkvm/common/src/secp256k1.rs                                            *)

\* U256::from_be_bytes; the inputs hold zero in their 29 leading bytes
U256_from_be_bytes(b) ==
    b[ScalarLen] + 256 * b[ScalarLen - 1] + 65536 * b[ScalarLen - 2]

\* modmul_u256: (lhs * rhs).rem(modulus)
modmul_u256(lhs, rhs, modulus) == (lhs * rhs) % modulus

\* crypto_bigint's add_mod: the sum, less the modulus once if it reaches it
add_mod(lhs, rhs, p) == IF lhs + rhs >= p THEN lhs + rhs - p ELSE lhs + rhs

\* schnorr_signature signing with the nonce alone (the challenge term lost)
schnorr_signature_nonce_only(secret_key, secret_nonce, challenge) ==
    Bytes32(add_mod(U256_from_be_bytes(secret_nonce), 0, CurveOrder))

schnorr_signature(secret_key, secret_nonce, challenge) ==
    LET d == U256_from_be_bytes(secret_key)
        r == U256_from_be_bytes(secret_nonce)
        e == U256_from_be_bytes(challenge)
        s == add_mod(r, modmul_u256(e, d, CurveOrder), CurveOrder)
    IN  Bytes32(s)

-----------------------------------------------------------------------------
(* The three programs: their descriptors (src/program.rs) and the guests   *)
(* the oracle runs (zkvm/*/src/main.rs).                                   *)

Programs == {"DlogSha256", "DlogSudoku", "Sha256Sudoku"}

\* Two more implementations of the Program trait, for the engines' checks
\* of what the prover returns: each declares an appendix_len that is out of
\* step with what its ELF commits (variant A's guest declared one byte
\* longer, variant C's guest declared one byte shorter).
StalePrograms == {"StaleDlog", "StaleSha256"}

\* P::id() as Digest::from(id): 32 bytes that differ between the programs
ImageId(P) ==
    [k \in 1..ScalarLen |->
        IF P = "DlogSha256" THEN 161
        ELSE IF P = "DlogSudoku" THEN 162
        ELSE IF P = "Sha256Sudoku" THEN 163
        ELSE IF P = "StaleDlog" THEN 164
        ELSE 165]

\* Sha256SudokuProgram: aux_input_len is 12 + 81 + 81, appendix_len 12 + 81 + 36
Sha256Sudoku_aux_input_len == ChaChaNonceLen + BoardLen + BoardLen
Sha256Sudoku_appendix_len == ChaChaNonceLen + BoardLen + CompactLen

\* the descriptors of the two discrete-log programs: variant A takes no
\* auxiliary input and appends a digest, variant B takes and appends what
\* variant C does
DlogSha256_aux_input_len == 0
DlogSha256_appendix_len == 32
DlogSudoku_aux_input_len == ChaChaNonceLen + BoardLen + BoardLen
DlogSudoku_appendix_len == ChaChaNonceLen + BoardLen + CompactLen

StaleDlog_appendix_len == 33
StaleSha256_appendix_len == 128

\* P::aux_input_len()
aux_input_len(P) ==
    IF P \in {"DlogSha256", "StaleDlog"} THEN DlogSha256_aux_input_len
    ELSE IF P = "DlogSudoku" THEN DlogSudoku_aux_input_len
    ELSE Sha256Sudoku_aux_input_len

\* P::appendix_len()
appendix_len(P) ==
    IF P = "DlogSha256" THEN DlogSha256_appendix_len
    ELSE IF P = "DlogSudoku" THEN DlogSudoku_appendix_len
    ELSE IF P = "Sha256Sudoku" THEN Sha256Sudoku_appendix_len
    ELSE IF P = "StaleDlog" THEN StaleDlog_appendix_len
    ELSE StaleSha256_appendix_len

GuestPanic == [tag |-> "Panic", journal |-> <<>>]

\* the sudoku part shared by the two sudoku guests: the assertion, the
\* masking and the encryption, giving nonce, puzzle and ciphertext
SudokuOutput(key, chacha_nonce, sudoku_puzzle_mask, sudoku_solution) ==
    IF ~is_valid_sudoku_solution(sudoku_solution) THEN GuestPanic
    ELSE LET sudoku_puzzle == mask_sudoku_solution(sudoku_solution, sudoku_puzzle_mask)
         IN  IF sudoku_puzzle.tag = "Panic" THEN GuestPanic
             ELSE [tag |-> "Ok",
                   journal |-> chacha_nonce \o sudoku_puzzle.board
                       \o apply_keystream(key, chacha_nonce, compress_board(sudoku_solution))]

\* zkvm/dlog_secp256k1_sha256: env::read_slice aborts when the input ends early
GuestDlogSha256(input) ==
    IF Len(input) < 3 * ScalarLen THEN GuestPanic
    ELSE LET secret_key == Slice(input, 0, 32)
             secret_nonce == Slice(input, 32, 64)
             challenge == Slice(input, 64, 96)
             sig == schnorr_signature(secret_key, secret_nonce, challenge)
         IN  [tag |-> "Ok", journal |-> challenge \o sig \o Sha256(secret_key)]

\* zkvm/dlog_secp256k1_sudoku
GuestDlogSudoku(input) ==
    IF Len(input) < 3 * ScalarLen + ChaChaNonceLen + 2 * BoardLen THEN GuestPanic
    ELSE LET secret_key == Slice(input, 0, 32)
             secret_nonce == Slice(input, 32, 64)
             challenge == Slice(input, 64, 96)
             chacha_nonce == Slice(input, 96, 108)
             sudoku_puzzle_mask == Slice(input, 108, 189)
             sudoku_solution == Slice(input, 189, 270)
             sig == schnorr_signature(secret_key, secret_nonce, challenge)
             out == SudokuOutput(secret_key, chacha_nonce, sudoku_puzzle_mask, sudoku_solution)
         IN  IF out.tag = "Panic" THEN GuestPanic
             ELSE [tag |-> "Ok", journal |-> challenge \o sig \o out.journal]

\* the guest committing the digest as soon as it is computed, before the
\* assertion on the solution
GuestSha256Sudoku_commit_first(input) ==
    IF Len(input) < ScalarLen + ChaChaNonceLen + 2 * BoardLen THEN GuestPanic
    ELSE LET preimage_bytes == Slice(input, 0, 32)
             chacha_nonce == Slice(input, 32, 44)
             sudoku_puzzle_mask == Slice(input, 44, 125)
             sudoku_solution == Slice(input, 125, 206)
             digest == Sha256(preimage_bytes)
             out == SudokuOutput(preimage_bytes, chacha_nonce, sudoku_puzzle_mask, sudoku_solution)
         IN  IF out.tag = "Panic" THEN [tag |-> "Panic", journal |-> digest]
             ELSE [tag |-> "Ok", journal |-> digest \o out.journal]

\* zkvm/sha256_sudoku
GuestSha256Sudoku(input) ==
    IF Len(input) < ScalarLen + ChaChaNonceLen + 2 * BoardLen THEN GuestPanic
    ELSE LET preimage_bytes == Slice(input, 0, 32)
             chacha_nonce == Slice(input, 32, 44)
             sudoku_puzzle_mask == Slice(input, 44, 125)
             sudoku_solution == Slice(input, 125, 206)
             digest == Sha256(preimage_bytes)
             out == SudokuOutput(preimage_bytes, chacha_nonce, sudoku_puzzle_mask, sudoku_solution)
         IN  IF out.tag = "Panic" THEN GuestPanic
             ELSE [tag |-> "Ok", journal |-> digest \o out.journal]

\* P::elf() run on the input
Guest(P, input) ==
    IF P \in {"DlogSha256", "StaleDlog"} THEN GuestDlogSha256(input)
    ELSE IF P = "DlogSudoku" THEN GuestDlogSudoku(input)
    ELSE GuestSha256Sudoku(input)

-----------------------------------------------------------------------------
(* The oracle: risc0's prover and Receipt::verify.  A seal says which      *)
(* image produced which journal; only the prover makes genuine seals.  The *)
(* prover is a service with a state of its own: whether it is able to      *)
(* prove when it is asked the first time, the second time, and so on, and  *)
(* how many times it has been asked.                                       *)

NoSeal == [genuine |-> FALSE, image_id |-> <<>>, journal |-> <<>>]
NoReceipt == [journal |-> <<>>, seal |-> NoSeal]

\* LocalProver::new("local"): a prover not yet asked; answers[n] tells
\* whether it is able to prove at its n-th invocation (the last entry
\* stands for every later one)
LocalProver(answers) == [answers |-> answers, calls |-> 0]

\* LocalProver::prove_with_opts(env, P::elf(), ..): one invocation; runs the
\* guest on the input; fails when the guest aborts, and may fail on its
\* own.  The prover it leaves behind has been asked once more.
OracleProve(P, input, prover) ==
    LET run == Guest(P, input)
        asked == prover.calls + 1
        able == prover.answers[IF asked <= Len(prover.answers) THEN asked
                               ELSE Len(prover.answers)]
        after == [prover EXCEPT !.calls = asked]
    IN  IF ~able \/ run.tag = "Panic"
        THEN [tag |-> "Err", receipt |-> NoReceipt, prover |-> after]
        ELSE [tag |-> "Ok",
              receipt |-> [journal |-> run.journal,
                           seal |-> [genuine |-> TRUE, image_id |-> ImageId(P),
                                     journal |-> run.journal]],
              prover |-> after]

\* Receipt::verify(image_id)
ReceiptVerify(receipt, image_id) ==
    /\ receipt.seal.genuine
    /\ receipt.seal.image_id = image_id
    /\ receipt.seal.journal = receipt.journal

-----------------------------------------------------------------------------
(* src/proofs/dlog_secp256k1_generic.rs                                    *)

\* b"secp256k1_nonce"
NonceTag == <<115, 101, 99, 112, 50, 53, 54, 107, 49, 95, 110, 111, 110, 99, 101>>

compute_challenge(id, public_nonce, public_key) ==
    MaybeScalar_reduce_from(
        Sha256(Point_serialize(public_nonce) \o Point_serialize(public_key) \o id))

NoProof == [public_key |-> 0, public_nonce |-> 0, receipt |-> NoReceipt]
ProveErr(why, calls) ==
    [tag |-> "Err", err |-> why, proof |-> NoProof, oracle_calls |-> calls]
NoProveRet == [tag |-> "none", err |-> "", proof |-> NoProof, oracle_calls |-> 0]

\* check_journal_length accepting every journal that is not too long
dlog_check_journal_length_at_most(P, journal) == Len(journal) <= 64 + appendix_len(P)

\* Secp256k1DlogProof::check_journal_length
dlog_check_journal_length(P, journal) == Len(journal) = 64 + appendix_len(P)

\* the guard rejecting only an aux_input that is too short
dlog_aux_input_rejected_short(P, aux) == Len(aux) < aux_input_len(P)

\* the guard of prove_custom on the length of aux_input
dlog_aux_input_rejected(P, aux) == Len(aux) # aux_input_len(P)

\* prove_custom asking the prover a second time when it fails
dlog_prove_custom_retry(P, secret_key, aux, built, prover) ==
    IF dlog_aux_input_rejected(P, aux) THEN ProveErr("aux_input length", prover.calls)
    ELSE
    LET secret_key_bytes == Scalar_serialize(secret_key)
        secret_nonce ==
            Scalar_reduce_from(Sha256(ImageId(P) \o secret_key_bytes \o aux \o NonceTag))
        secret_nonce_bytes == Scalar_serialize(secret_nonce)
        public_key == ScalarTimesG(secret_key)
        public_nonce == ScalarTimesG(secret_nonce)
        challenge == compute_challenge(ImageId(P), public_nonce, public_key)
        env == secret_key_bytes \o secret_nonce_bytes \o Scalar_serialize(challenge) \o aux
    IN  IF ~built THEN ProveErr("executor env", prover.calls)
        ELSE
        LET first_try == OracleProve(P, env, prover)
            prove_info == IF first_try.tag = "Err"
                          THEN OracleProve(P, env, first_try.prover)
                          ELSE first_try
        IN  IF prove_info.tag = "Err" THEN ProveErr("prover", prove_info.prover.calls)
            ELSE IF ~dlog_check_journal_length(P, prove_info.receipt.journal)
                 THEN ProveErr("journal length", prove_info.prover.calls)
            ELSE [tag |-> "Ok", err |-> "",
                  proof |-> [public_key |-> public_key, public_nonce |-> public_nonce,
                             receipt |-> prove_info.receipt],
                  oracle_calls |-> prove_info.prover.calls]

\* Secp256k1DlogProof::<P>::prove_custom(secret_key, aux_input), called with
\* a prover in some state; built tells whether ExecutorEnv::builder()
\* ..build() succeeds.  oracle_calls is the number of invocations the
\* prover has counted when the call returns.
dlog_prove_custom(P, secret_key, aux, built, prover) ==
    IF dlog_aux_input_rejected(P, aux) THEN ProveErr("aux_input length", prover.calls)
    ELSE
    LET secret_key_bytes == Scalar_serialize(secret_key)
        secret_nonce ==
            Scalar_reduce_from(Sha256(ImageId(P) \o secret_key_bytes \o aux \o NonceTag))
        secret_nonce_bytes == Scalar_serialize(secret_nonce)
        public_key == ScalarTimesG(secret_key)
        public_nonce == ScalarTimesG(secret_nonce)
        challenge == compute_challenge(ImageId(P), public_nonce, public_key)
        env == secret_key_bytes \o secret_nonce_bytes \o Scalar_serialize(challenge) \o aux
    IN  IF ~built THEN ProveErr("executor env", prover.calls)
        ELSE
        LET prove_info == OracleProve(P, env, prover)
        IN  IF prove_info.tag = "Err" THEN ProveErr("prover", prove_info.prover.calls)
            ELSE IF ~dlog_check_journal_length(P, prove_info.receipt.journal)
                 THEN ProveErr("journal length", prove_info.prover.calls)
            ELSE [tag |-> "Ok", err |-> "",
                  proof |-> [public_key |-> public_key, public_nonce |-> public_nonce,
                             receipt |-> prove_info.receipt],
                  oracle_calls |-> prove_info.prover.calls]

\* Secp256k1DlogProof::journal, challenge, signature
dlog_journal(proof) == proof.receipt.journal
dlog_challenge(proof) == MaybeScalar_try_from(Slice(dlog_journal(proof), 0, 32))
dlog_signature(proof) == MaybeScalar_try_from(Slice(dlog_journal(proof), 32, 64))

VerifyRet(ret, calls) == [ret |-> ret, oracle_calls |-> calls]
NoVerifyRet == VerifyRet("none", 0)

\* verify delegating to the oracle alone, as the preimage engine's does
dlog_verify_receipt_only(P, proof) ==
    IF ~ReceiptVerify(proof.receipt, ImageId(P)) THEN VerifyRet("Err: receipt", 1)
    ELSE VerifyRet("Ok", 1)

\* verify with the oracle consulted first
dlog_verify_receipt_first(P, proof) ==
    IF ~ReceiptVerify(proof.receipt, ImageId(P)) THEN VerifyRet("Err: receipt", 1)
    ELSE IF Len(dlog_journal(proof)) < 64 THEN VerifyRet("Panic", 1)
    ELSE
    LET challenge == compute_challenge(ImageId(P), proof.public_nonce, proof.public_key)
        journal_challenge == dlog_challenge(proof)
        s == dlog_signature(proof)
    IN  IF journal_challenge.tag = "Err" THEN VerifyRet("Err: challenge bytes", 1)
        ELSE IF challenge # journal_challenge.value
             THEN VerifyRet("Err: journal challenge does not match", 1)
        ELSE IF s.tag = "Err" THEN VerifyRet("Err: signature bytes", 1)
        ELSE IF ScalarTimesG(s.value) #
                PointPlus(proof.public_nonce, PointTimesScalar(proof.public_key, challenge))
             THEN VerifyRet("Err: schnorr signature is invalid", 1)
        ELSE VerifyRet("Ok", 1)

\* Secp256k1DlogProof::<P>::verify; slicing a journal shorter than the slice
\* panics
dlog_verify(P, proof) ==
    IF Len(dlog_journal(proof)) < 32 THEN VerifyRet("Panic", 0)
    ELSE
    LET challenge == compute_challenge(ImageId(P), proof.public_nonce, proof.public_key)
        journal_challenge == dlog_challenge(proof)
    IN  IF journal_challenge.tag = "Err" THEN VerifyRet("Err: challenge bytes", 0)
        ELSE IF challenge # journal_challenge.value
             THEN VerifyRet("Err: journal challenge does not match", 0)
        ELSE IF Len(dlog_journal(proof)) < 64 THEN VerifyRet("Panic", 0)
        ELSE
        LET s == dlog_signature(proof)
        IN  IF s.tag = "Err" THEN VerifyRet("Err: signature bytes", 0)
            ELSE IF ScalarTimesG(s.value) #
                    PointPlus(proof.public_nonce, PointTimesScalar(proof.public_key, challenge))
                 THEN VerifyRet("Err: schnorr signature is invalid", 0)
            ELSE IF ~ReceiptVerify(proof.receipt, ImageId(P))
                 THEN VerifyRet("Err: receipt", 1)
            ELSE VerifyRet("Ok", 1)

-----------------------------------------------------------------------------
(* src/proofs/sha256_generic.rs and src/proofs/sha256_sudoku.rs            *)

NoShaProof == [receipt |-> NoReceipt]
ShaProveErr(why, calls) ==
    [tag |-> "Err", err |-> why, proof |-> NoShaProof, oracle_calls |-> calls]

\* Sha256Proof::check_journal_length
sha_check_journal_length(P, journal) == Len(journal) = 32 + appendix_len(P)

\* Sha256Proof::<P>::prove_custom(preimage, aux_input): the input goes to
\* the prover as it is
sha_prove_custom(P, preimage_bytes, aux, built, prover) ==
    LET env == preimage_bytes \o aux
    IN  IF ~built THEN ShaProveErr("executor env", prover.calls)
        ELSE
        LET prove_info == OracleProve(P, env, prover)
        IN  IF prove_info.tag = "Err" THEN ShaProveErr("prover", prove_info.prover.calls)
            ELSE IF ~sha_check_journal_length(P, prove_info.receipt.journal)
                 THEN ShaProveErr("journal length", prove_info.prover.calls)
            ELSE [tag |-> "Ok", err |-> "", proof |-> [receipt |-> prove_info.receipt],
                  oracle_calls |-> prove_info.prover.calls]

\* Sha256Proof::journal and hash
sha_journal(proof) == proof.receipt.journal
sha_hash(proof) == Slice(sha_journal(proof), 0, 32)

\* Sha256Proof::<P>::verify
sha_verify(P, proof) ==
    IF ReceiptVerify(proof.receipt, ImageId(P)) THEN VerifyRet("Ok", 1)
    ELSE VerifyRet("Err: receipt", 1)

\* b"chacha_nonce"
ChaChaNonceTag == <<99, 104, 97, 99, 104, 97, 95, 110, 111, 110, 99, 101>>

\* the aux_input Sha256SudokuProof::new packs: nonce, mask, solution
sha_sudoku_aux_input(preimage_bytes, solution, puzzle_mask) ==
    LET chacha_nonce_hash ==
            Sha256(ImageId("Sha256Sudoku") \o preimage_bytes \o solution \o puzzle_mask
                   \o ChaChaNonceTag)
    IN  Slice(chacha_nonce_hash, 0, 12) \o puzzle_mask \o solution

\* Sha256SudokuProof::new(preimage, solution, puzzle_mask)
sha_sudoku_new(preimage_bytes, solution, puzzle_mask, built, prover) ==
    sha_prove_custom("Sha256Sudoku", preimage_bytes,
                     sha_sudoku_aux_input(preimage_bytes, solution, puzzle_mask), built,
                     prover)

\* puzzle() forgetting the nonce in front of the puzzle
sha_sudoku_puzzle_unshifted(proof) == Slice(sha_journal(proof), 32, 32 + 81)

\* Sha256SudokuProof::puzzle
sha_sudoku_puzzle(proof) == Slice(sha_journal(proof), 32 + 12, 32 + 12 + 81)

\* decrypt_solution reading the nonce at the start of the journal
sha_chacha_nonce_unshifted(proof) == Slice(sha_journal(proof), 0, 12)

\* decrypt_solution: &self.journal()[32..][..12]
sha_chacha_nonce(proof) == Slice(sha_journal(proof), 32, 32 + 12)

\* decrypt_solution: &self.journal()[32..][12..][81..]
sha_encrypted_solution(proof) ==
    Slice(sha_journal(proof), 32 + 12 + 81, Len(sha_journal(proof)))

\* results of decrypt_solution; steps lists what ran, in order
DecryptRet(tag, err, decrypted, steps) ==
    [tag |-> tag, err |-> err, board |-> decrypted, steps |-> steps]

\* decrypt_solution comparing the hashes only after decoding the board
sha_decrypt_solution_late_hash(proof, preimage_bytes) ==
    LET journal == sha_journal(proof)
    IN  IF Len(journal) # 32 + 12 + 81 + CompactLen
        THEN DecryptRet("Panic", "", <<>>, <<"cipher">>)
        ELSE
        LET compact_solution ==
                apply_keystream(preimage_bytes, sha_chacha_nonce(proof),
                                sha_encrypted_solution(proof))
            solution == decompress_board(compact_solution)
        IN  IF solution.tag = "Err"
            THEN DecryptRet("Err", "malleable encoding", <<>>, <<"cipher", "decode">>)
            ELSE IF Sha256(preimage_bytes) # sha_hash(proof)
            THEN DecryptRet("Err", "preimage does not match hash in proof journal", <<>>,
                            <<"cipher", "decode", "hash">>)
            ELSE IF ~is_valid_sudoku_solution(solution.board)
            THEN DecryptRet("Err", "decrypted solution is not valid", <<>>,
                            <<"cipher", "decode", "hash", "valid">>)
            ELSE IF ~solves_sudoku_puzzle(solution.board, sha_sudoku_puzzle(proof))
            THEN DecryptRet("Err", "decrypted solution is for the wrong puzzle", <<>>,
                            <<"cipher", "decode", "hash", "valid", "solves">>)
            ELSE DecryptRet("Ok", "", solution.board,
                            <<"cipher", "decode", "hash", "valid", "solves">>)

\* decrypt_solution returning the decoded board without the two checks
sha_decrypt_solution_unchecked(proof, preimage_bytes) ==
    LET journal == sha_journal(proof)
    IN  IF Len(journal) < 32 THEN DecryptRet("Panic", "", <<>>, <<"hash">>)
        ELSE IF Sha256(preimage_bytes) # sha_hash(proof)
        THEN DecryptRet("Err", "preimage does not match hash in proof journal", <<>>,
                        <<"hash">>)
        ELSE IF Len(journal) # 32 + 12 + 81 + CompactLen
        THEN DecryptRet("Panic", "", <<>>, <<"hash">>)
        ELSE
        LET compact_solution ==
                apply_keystream(preimage_bytes, sha_chacha_nonce(proof),
                                sha_encrypted_solution(proof))
            solution == decompress_board(compact_solution)
        IN  IF solution.tag = "Err"
            THEN DecryptRet("Err", "malleable encoding", <<>>, <<"hash", "cipher", "decode">>)
            ELSE DecryptRet("Ok", "", solution.board, <<"hash", "cipher", "decode">>)

\* Sha256SudokuProof::decrypt_solution(preimage); slicing past the end of
\* the journal, and a slice that is not of 36 bytes, panic
sha_decrypt_solution(proof, preimage_bytes) ==
    LET journal == sha_journal(proof)
    IN  IF Len(journal) < 32 THEN DecryptRet("Panic", "", <<>>, <<"hash">>)
        ELSE IF Sha256(preimage_bytes) # sha_hash(proof)
        THEN DecryptRet("Err", "preimage does not match hash in proof journal", <<>>, <<"hash">>)
        ELSE IF Len(journal) # 32 + 12 + 81 + CompactLen
        THEN DecryptRet("Panic", "", <<>>, <<"hash">>)
        ELSE
        LET compact_solution ==
                apply_keystream(preimage_bytes, sha_chacha_nonce(proof),
                                sha_encrypted_solution(proof))
            solution == decompress_board(compact_solution)
        IN  IF solution.tag = "Err"
            THEN DecryptRet("Err", "malleable encoding", <<>>, <<"hash", "cipher", "decode">>)
            ELSE IF ~is_valid_sudoku_solution(solution.board)
            THEN DecryptRet("Err", "decrypted solution is not valid", <<>>,
                            <<"hash", "cipher", "decode", "valid">>)
            ELSE IF ~solves_sudoku_puzzle(solution.board, sha_sudoku_puzzle(proof))
            THEN DecryptRet("Err", "decrypted solution is for the wrong puzzle", <<>>,
                            <<"hash", "cipher", "decode", "valid", "solves">>)
            ELSE DecryptRet("Ok", "", solution.board,
                            <<"hash", "cipher", "decode", "valid", "solves">>)

-----------------------------------------------------------------------------
(* The inputs the operations are applied to.                               *)

\* the solved board of the tests and the examples
ExampleSolution ==
    << 6, 1, 4,  3, 8, 9,  2, 5, 7,
       5, 8, 3,  6, 7, 2,  4, 1, 9,
       9, 7, 2,  5, 4, 1,  8, 6, 3,
       1, 3, 9,  8, 5, 4,  6, 7, 2,
       2, 5, 8,  1, 6, 7,  9, 3, 4,
       7, 4, 6,  2, 9, 3,  5, 8, 1,
       8, 2, 7,  9, 1, 5,  3, 4, 6,
       4, 9, 5,  7, 3, 6,  1, 2, 8,
       3, 6, 1,  4, 2, 8,  7, 9, 5 >>

\* the mask of the examples
ExampleMask ==
    << 1, 1, 1,  1, 1, 1,  1, 1, 0,
       1, 0, 0,  1, 0, 0,  1, 0, 0,
       0, 0, 0,  1, 0, 0,  0, 1, 1,
       1, 1, 0,  1, 0, 0,  1, 1, 0,
       1, 0, 1,  1, 1, 0,  1, 0, 1,
       0, 1, 0,  1, 0, 1,  1, 0, 1,
       0, 1, 0,  1, 0, 0,  1, 0, 0,
       1, 0, 1,  1, 0, 1,  1, 0, 0,
       1, 1, 0,  1, 1, 0,  1, 0, 1 >>

\* the mask of test_mask_sudoku_solution: first row and first column hidden
TestMask == [k \in 1..BoardLen |-> IF k - 1 < 9 \/ (k - 1) % 9 = 0 THEN 0 ELSE 1]

ConstBoard(d) == [k \in 1..BoardLen |-> d]

\* every row and column a permutation of 1..9, the subgrids not
LatinBoard == [k \in 1..BoardLen |-> ((((k - 1) \div 9) + ((k - 1) % 9)) % 9) + 1]
\* every row a permutation of 1..9, the columns not
RowsOnlyBoard == [k \in 1..BoardLen |-> ((k - 1) % 9) + 1]

SwapRows(b, r1, r2) ==
    [k \in 1..BoardLen |->
        LET r == (k - 1) \div 9
            c == (k - 1) % 9
        IN  IF r = r1 THEN At(b, r2 * 9 + c)
            ELSE IF r = r2 THEN At(b, r1 * 9 + c)
            ELSE b[k]]

SwapColumns(b, c1, c2) ==
    [k \in 1..BoardLen |->
        LET r == (k - 1) \div 9
            c == (k - 1) % 9
        IN  IF c = c1 THEN At(b, r * 9 + c2)
            ELSE IF c = c2 THEN At(b, r * 9 + c1)
            ELSE b[k]]

BaseBoards ==
    { ExampleSolution, LatinBoard, RowsOnlyBoard, ConstBoard(0), ConstBoard(9) }

\* the base boards, one cell of a base board overwritten, and two rows or
\* two columns of the example solution exchanged
Boards ==
    BaseBoards
    \cup { [b EXCEPT ![k] = d] :
              b \in {ExampleSolution, ConstBoard(0), ConstBoard(9)},
              k \in 1..BoardLen, d \in 0..MaxCell }
    \cup { SwapRows(ExampleSolution, r1, r2) : r1 \in 0..8, r2 \in 0..8 }
    \cup { SwapColumns(ExampleSolution, c1, c2) : c1 \in 0..8, c2 \in 0..8 }

BaseMasks == { ExampleMask, TestMask, ConstBoard(0), ConstBoard(1) }

Masks ==
    BaseMasks
    \cup { [ExampleMask EXCEPT ![k] = v] : k \in 1..BoardLen, v \in 0..MaxMaskByte }
    \cup { [ExampleMask EXCEPT ![k] = MaxByte] : k \in 1..BoardLen }

\* the rows 614_389_257, 583_672_419, ... of test_compact_board_representation
ExampleCompact ==
    << 36, 158, 214, 9,   34, 202, 34, 99,   57, 247, 207, 167,
       8, 86, 3, 80,      15, 99, 84, 126,   44, 123, 137, 77,
       49, 88, 252, 82,   29, 140, 85, 64,   21, 138, 247, 59 >>

RepeatRow(r) == [k \in 1..CompactLen |-> r[((k - 1) % 4) + 1]]

\* every row 999_999_999 (the largest accepted), 1_000_000_000 (the
\* smallest rejected), 0 and 0xFFFFFFFF
NinesCompact == RepeatRow(<<59, 154, 201, 255>>)
BillionCompact == RepeatRow(<<59, 154, 202, 0>>)
BaseCompacts ==
    { ExampleCompact, NinesCompact, BillionCompact,
      RepeatRow(<<0, 0, 0, 0>>), RepeatRow(<<MaxByte, MaxByte, MaxByte, MaxByte>>) }

\* the base encodings, and one byte of an accepted base encoding overwritten
Compacts ==
    BaseCompacts
    \cup { [c EXCEPT ![k] = v] :
              c \in {ExampleCompact, NinesCompact}, k \in 1..CompactLen, v \in 0..MaxByte }

-----------------------------------------------------------------------------
(* The board codec applied to its inputs: each behaviour draws the         *)
(* arguments and then runs one chain of operations on them.                *)

Init ==
    /\ pc = "start"
    /\ \/ board \in Boards /\ mask = ExampleMask /\ compact = ExampleCompact
       \/ board \in BaseBoards /\ mask \in Masks /\ compact = ExampleCompact
       \/ board = ExampleSolution /\ mask = ExampleMask /\ compact \in Compacts
    /\ compressed = NoBytes
    /\ decompressed = NoResult
    /\ puzzle = NoResult
    /\ valid = "none"
    /\ solves = "none"
    /\ program = "none"
    /\ secretKey = 0
    /\ preimage = NoBytes
    /\ aux_input = NoBytes
    /\ oracle_ok = TRUE
    /\ origin = "none"
    /\ proveRet = NoProveRet
    /\ record = NoProof
    /\ verifyRet = NoVerifyRet
    /\ tamper = "none"
    /\ env_ok = TRUE
    /\ oracle_later = TRUE
    /\ readRet = NoReadRet
    /\ secret = NoBytes
    /\ decryptRet = NoDecryptRet
    /\ schnorrArgs = NoSchnorrArgs
    /\ schnorrSig = NoBytes

\* compress_board(&board)
Compress ==
    /\ pc = "start"
    /\ compressed' = compress_board(board)
    /\ pc' = "compressed"
    /\ UNCHANGED <<board, mask, compact, decompressed, puzzle, valid, solves>>
    /\ UNCHANGED <<engineVars, moreVars>>

\* decompress_board(&compress_board(&board))
DecompressCompressed ==
    /\ pc = "compressed"
    /\ decompressed' = decompress_board(compressed)
    /\ pc' = "roundtrip"
    /\ UNCHANGED <<board, mask, compact, compressed, puzzle, valid, solves>>
    /\ UNCHANGED <<engineVars, moreVars>>

\* decompress_board(&compact)
Decompress ==
    /\ pc = "start"
    /\ decompressed' = decompress_board(compact)
    /\ pc' = "decompressed"
    /\ UNCHANGED <<board, mask, compact, compressed, puzzle, valid, solves>>
    /\ UNCHANGED <<engineVars, moreVars>>

\* compress_board(&decompress_board(&compact)?)
CompressDecompressed ==
    /\ pc = "decompressed"
    /\ decompressed.tag = "Ok"
    /\ compressed' = compress_board(decompressed.board)
    /\ pc' = "recompressed"
    /\ UNCHANGED <<board, mask, compact, decompressed, puzzle, valid, solves>>
    /\ UNCHANGED <<engineVars, moreVars>>

\* mask_sudoku_solution(&board, &mask)
Mask ==
    /\ pc = "start"
    /\ puzzle' = mask_sudoku_solution(board, mask)
    /\ pc' = "masked"
    /\ UNCHANGED <<board, mask, compact, compressed, decompressed, valid, solves>>
    /\ UNCHANGED <<engineVars, moreVars>>

\* solves_sudoku_puzzle(&board, &mask_sudoku_solution(&board, &mask))
SolvesMasked ==
    /\ pc = "masked"
    /\ puzzle.tag = "Ok"
    /\ solves' = solves_sudoku_puzzle(board, puzzle.board)
    /\ pc' = "solved"
    /\ UNCHANGED <<board, mask, compact, compressed, decompressed, puzzle, valid>>
    /\ UNCHANGED <<engineVars, moreVars>>

\* is_valid_sudoku_solution(&board)
Validate ==
    /\ pc = "start"
    /\ valid' = is_valid_sudoku_solution(board)
    /\ pc' = "validated"
    /\ UNCHANGED <<board, mask, compact, compressed, decompressed, puzzle, solves>>
    /\ UNCHANGED <<engineVars, moreVars>>

Next ==
    \/ Compress
    \/ DecompressCompressed
    \/ Decompress
    \/ CompressDecompressed
    \/ Mask
    \/ SolvesMasked
    \/ Validate

Spec == Init /\ [][Next]_vars

-----------------------------------------------------------------------------
(* Properties of the board codec, checked under Spec.                      *)

IsDigitBoard(b) == \A k \in 1..BoardLen : b[k] \in 0..9
IsBinaryMask(m) == \A k \in 1..BoardLen : m[k] \in {0, 1}

\* C1: for every board whose 81 cells are digits 0..9, decompressing the
\* compressed board gives Ok(board).
C1_RoundTrip ==
    (pc = "roundtrip" /\ IsDigitBoard(board))
        => decompressed = [tag |-> "Ok", board |-> board]

\* a round trip of a digit board other than the tests' board, with a zero
\* in the leading cell of a row
C1_Witness ==
    /\ pc = "roundtrip"
    /\ IsDigitBoard(board)
    /\ board # ExampleSolution
    /\ board[1] = 0 /\ board[2] # 0
    /\ decompressed.tag = "Ok"

\* a > b for two 4-byte big-endian numbers, byte by byte
BytesGreater(a, b) ==
    \E k \in 1..4 : a[k] > b[k] /\ \A j \in 1..(k - 1) : a[j] = b[j]

\* the bytes of 999_999_999 = 0x3B9AC9FF
MaxRowBytes == <<59, 154, 201, 255>>

HasOverRangeRow(c) ==
    \E i \in 0..8 : BytesGreater(Slice(c, 4 * i, 4 * i + 4), MaxRowBytes)

\* the argument of the decompress_board call that ran last
DecompressArgument == IF pc = "roundtrip" THEN compressed ELSE compact

\* C2: decompress_board returns the error exactly when one of the nine
\* big-endian row values is above 999,999,999; otherwise it returns Ok with
\* a board of digits 0..9. An over-range row never becomes a board.
C2_DecompressRejectsExactly ==
    (pc \in {"roundtrip", "decompressed"}) =>
        /\ decompressed.tag \in {"Ok", "Err"}
        /\ decompressed.tag = "Err" <=> HasOverRangeRow(DecompressArgument)
        /\ decompressed.tag = "Err" => decompressed.board = <<>>
        /\ decompressed.tag = "Ok" =>
              /\ Len(decompressed.board) = BoardLen
              /\ IsDigitBoard(decompressed.board)

\* decompress_board(&[0xFF; 36]) is an error
C2_Witness ==
    /\ pc = "decompressed"
    /\ compact = RepeatRow(<<MaxByte, MaxByte, MaxByte, MaxByte>>)
    /\ decompressed.tag = "Err"

\* C3: for every compact value that decompress_board accepts, compressing
\* the decoded board gives the same 36 bytes back.
C3_EncodingOneToOne ==
    pc = "recompressed" => compressed = compact

\* an accepted encoding that is not one of the base encodings, re-encoded
C3_Witness ==
    /\ pc = "recompressed"
    /\ compact \notin BaseCompacts
    /\ decompressed.tag = "Ok"
    /\ decompressed.board # ExampleSolution

\* C4: for every solution and every mask of zeros and ones the puzzle is 0
\* where the mask is 0 and the solution's cell where the mask is 1.
C4_MaskingCorrect ==
    (pc \in {"masked", "solved"} /\ IsBinaryMask(mask)) =>
        /\ puzzle.tag = "Ok"
        /\ \A i \in 0..80 :
              /\ At(mask, i) = 0 => At(puzzle.board, i) = 0
              /\ At(mask, i) = 1 => At(puzzle.board, i) = At(board, i)

\* the case of test_mask_sudoku_solution
C4_Witness ==
    /\ pc = "masked"
    /\ board = ExampleSolution
    /\ mask = TestMask
    /\ puzzle.tag = "Ok"
    /\ Slice(puzzle.board, 0, 18) =
          << 0, 0, 0, 0, 0, 0, 0, 0, 0,  0, 8, 3, 6, 7, 2, 4, 1, 9 >>

\* the 27 units of a board as sets of cell positions (1-based), from the
\* coordinates of the cells
CellRow(k) == (k - 1) \div 9
CellColumn(k) == (k - 1) % 9
Units ==
    { {k \in 1..BoardLen : CellRow(k) = r} : r \in 0..8 }
    \cup { {k \in 1..BoardLen : CellColumn(k) = c} : c \in 0..8 }
    \cup { {k \in 1..BoardLen : CellRow(k) \div 3 = br /\ CellColumn(k) \div 3 = bc} :
              br \in 0..2, bc \in 0..2 }

EachDigitOnce(b, unit) ==
    \A d \in 1..9 : Cardinality({k \in unit : b[k] = d}) = 1

\* C5: is_valid_sudoku_solution is true exactly when each of the 9 rows,
\* 9 columns and 9 subgrids holds each digit 1..9 exactly once.
C5_ValidityExact ==
    pc = "validated" =>
        (valid = TRUE <=> \A unit \in Units : EachDigitOnce(board, unit))

\* a board whose rows and columns are fine and whose subgrids are not
C5_Witness ==
    /\ pc = "validated"
    /\ board = LatinBoard
    /\ valid = FALSE

-----------------------------------------------------------------------------
(* The discrete-log engine applied to its inputs: a record is made by      *)
(* prove_custom, or built by someone who runs the prover on inputs of his  *)
(* own choice and picks the public points himself; verify() is called on   *)
(* it; a record that verified has one field replaced and verify() is       *)
(* called again.                                                           *)

\* Secret keys are 1..MaxKey and the largest scalar.
MaxKey == 3
\* The scalars and points a forged record is built from are 1..MaxForge.
MaxForge == 2

DlogPrograms == {"DlogSha256", "DlogSudoku"}

\* the engine the program at hand instantiates: Secp256k1DlogProof<P>, else
\* Sha256Proof<P>
IsDlogProgram == program \in DlogPrograms \cup {"StaleDlog"}
SecretKeys == 1..MaxKey \cup {CurveOrder - 1}

ExampleNonce == [k \in 1..ChaChaNonceLen |-> k]

\* auxiliary inputs of the declared length (the solution valid or not, the
\* mask binary or not), one byte shorter and one byte longer
DlogAuxInputs(P) ==
    IF P \in {"DlogSha256", "StaleDlog"} THEN { <<>>, <<7>> }
    ELSE LET honest == ExampleNonce \o ExampleMask \o ExampleSolution
         IN  { honest,
               ExampleNonce \o ExampleMask \o LatinBoard,
               ExampleNonce \o [ExampleMask EXCEPT ![1] = 2] \o ExampleSolution,
               Slice(honest, 0, Len(honest) - 1),
               honest \o <<0>>,
               <<>> }

InitDlogOf(programs) ==
    /\ pc = "start"
    /\ board = ExampleSolution /\ mask = ExampleMask /\ compact = ExampleCompact
    /\ compressed = NoBytes
    /\ decompressed = NoResult
    /\ puzzle = NoResult
    /\ valid = "none"
    /\ solves = "none"
    /\ program \in programs
    /\ secretKey \in SecretKeys
    /\ preimage = NoBytes
    /\ aux_input \in DlogAuxInputs(program)
    /\ oracle_ok \in BOOLEAN
    /\ origin = "none"
    /\ proveRet = NoProveRet
    /\ record = NoProof
    /\ verifyRet = NoVerifyRet
    /\ tamper = "none"
    /\ env_ok = TRUE
    /\ oracle_later = TRUE
    /\ readRet = NoReadRet
    /\ secret = NoBytes
    /\ decryptRet = NoDecryptRet
    /\ schnorrArgs = NoSchnorrArgs
    /\ schnorrSig = NoBytes

InitDlog == InitDlogOf(DlogPrograms)

\* Secp256k1DlogProof::<P>::prove_custom(secret_key, aux_input) with a
\* prover that is able the first time as oracle_ok says and afterwards as
\* later says; built tells whether the executor environment can be built
DlogProveIn(built, later) ==
    /\ pc = "start"
    /\ IsDlogProgram
    /\ env_ok' = built
    /\ oracle_later' = later
    /\ proveRet' = dlog_prove_custom(program, secretKey, aux_input, built,
                                     LocalProver(<<oracle_ok, later>>))
    /\ record' = proveRet'.proof
    /\ origin' = "prove_custom"
    /\ pc' = "proved"
    /\ UNCHANGED <<readRet, secret, decryptRet, schnorrArgs, schnorrSig>>
    /\ UNCHANGED <<codecVars, program, secretKey, preimage, aux_input, oracle_ok,
                   verifyRet, tamper>>

\* the calls whose executor environment is built
DlogProve == DlogProveIn(TRUE, TRUE)

\* a record put together outside prove_custom (and read by from_bytes): the
\* prover of program image run on (d, r, e, aux_input), the public points
\* chosen freely; the challenge e is the one verify() will compute when
\* fiat_shamir, else a scalar of the forger's choice
DlogForge(image, public_key, public_nonce, d, r, fiat_shamir, chosen) ==
    /\ pc = "start"
    /\ IsDlogProgram
    /\ oracle_ok
    /\ LET e == IF fiat_shamir
                THEN compute_challenge(ImageId(program), public_nonce, public_key)
                ELSE chosen
           env == Scalar_serialize(d) \o Scalar_serialize(r) \o Scalar_serialize(e)
                      \o aux_input
           prove_info == OracleProve(image, env, LocalProver(<<TRUE>>))
       IN  /\ prove_info.tag = "Ok"
           /\ record' = [public_key |-> public_key, public_nonce |-> public_nonce,
                         receipt |-> prove_info.receipt]
    /\ secretKey' = d
    /\ origin' = "from_bytes"
    /\ pc' = "proved"
    /\ UNCHANGED moreVars
    /\ UNCHANGED <<codecVars, program, preimage, aux_input, oracle_ok, proveRet,
                   verifyRet, tamper>>

\* proof.verify() on the record at hand
DlogVerify ==
    /\ pc = "proved"
    /\ IsDlogProgram
    /\ origin = "prove_custom" => proveRet.tag = "Ok"
    /\ verifyRet' = dlog_verify(program, record)
    /\ pc' = "verified"
    /\ UNCHANGED moreVars
    /\ UNCHANGED <<codecVars, program, secretKey, preimage, aux_input, oracle_ok, origin,
                   proveRet, record, tamper>>

\* the 32-byte strings a journal field is replaced by: every value of the
\* last byte, and a one in any of the leading bytes
ReplacementBytes(current) ==
    { Bytes32(v) : v \in 0..MaxByte }
    \cup { [current EXCEPT ![k] = 1] : k \in 1..(ScalarLen - 1) }

ReplaceSlice(journal, from, bytes) ==
    [k \in 1..Len(journal) |->
        IF k > from /\ k <= from + Len(bytes) THEN bytes[k - from] ELSE journal[k]]

\* one field of a record that verified is replaced by a different value
Tampered(rec, field, point, bytes) ==
    IF field = "public_key" THEN [rec EXCEPT !.public_key = point]
    ELSE IF field = "public_nonce" THEN [rec EXCEPT !.public_nonce = point]
    ELSE IF field = "challenge"
         THEN [rec EXCEPT !.receipt.journal = ReplaceSlice(@, 0, bytes)]
    ELSE IF field = "signature"
         THEN [rec EXCEPT !.receipt.journal = ReplaceSlice(@, 32, bytes)]
    ELSE IF field = "appendix"
         THEN [rec EXCEPT !.receipt.journal = ReplaceSlice(@, 64, <<(@[65] + 1) % 256>>)]
    ELSE [rec EXCEPT !.receipt.seal = NoSeal]

DlogTamper(field, point, bytes) ==
    /\ pc = "verified"
    /\ IsDlogProgram
    /\ verifyRet.ret = "Ok"
    /\ Tampered(record, field, point, bytes) # record
    /\ record' = Tampered(record, field, point, bytes)
    /\ tamper' = field
    /\ pc' = "tampered"
    /\ UNCHANGED moreVars
    /\ UNCHANGED <<codecVars, program, secretKey, preimage, aux_input, oracle_ok, origin,
                   proveRet, verifyRet>>

\* proof.verify() on the record with the replaced field
DlogReverify ==
    /\ pc = "tampered"
    /\ IsDlogProgram
    /\ verifyRet' = dlog_verify(program, record)
    /\ pc' = "reverified"
    /\ UNCHANGED moreVars
    /\ UNCHANGED <<codecVars, program, secretKey, preimage, aux_input, oracle_ok, origin,
                   proveRet, record, tamper>>

NextDlog ==
    \/ DlogProve
    \/ \E image \in DlogPrograms, public_key \in 1..MaxForge, public_nonce \in 1..MaxForge,
          d \in 1..MaxForge, r \in 1..MaxForge, chosen \in 0..1 :
          \/ DlogForge(image, public_key, public_nonce, d, r, TRUE, 0)
          \/ DlogForge(image, public_key, public_nonce, d, r, FALSE, chosen)
    \/ DlogVerify
    \/ \E field \in {"public_key", "public_nonce"}, point \in 1..(CurveOrder - 1) :
          DlogTamper(field, point, NoBytes)
    \/ /\ pc = "verified"
       /\ \E bytes \in ReplacementBytes(Slice(dlog_journal(record), 0, 32)) :
              DlogTamper("challenge", 0, bytes)
    \/ /\ pc = "verified"
       /\ \E bytes \in ReplacementBytes(Slice(dlog_journal(record), 32, 64)) :
              DlogTamper("signature", 0, bytes)
    \/ \E field \in {"appendix", "seal"} : DlogTamper(field, 0, NoBytes)
    \/ DlogReverify

SpecDlog == InitDlog /\ [][NextDlog]_vars

-----------------------------------------------------------------------------
(* Properties of the discrete-log engine, checked under SpecDlog.          *)

\* the mask and the solution inside an aux_input of variant B
AuxMask(aux) == Slice(aux, 12, 93)
AuxSolution(aux) == Slice(aux, 93, 174)

\* the attested program runs to its end on the inputs prove_custom hands it:
\* variant A always, variant B when the solution is a valid one and the mask
\* is of zeros and ones
RunsFaithfully ==
    \/ program = "DlogSha256"
    \/ /\ \A unit \in Units : EachDigitOnce(AuxSolution(aux_input), unit)
       /\ IsBinaryMask(AuxMask(aux_input))

\* the big-endian integers in bytes 0..32 and 32..64 of the record's journal
JournalChallenge == U256_from_be_bytes(Slice(dlog_journal(record), 0, 32))
JournalSignature == U256_from_be_bytes(Slice(dlog_journal(record), 32, 64))

\* C6: for every nonzero secret key and every aux_input of the declared
\* length on which the attested program runs to its end, prove_custom
\* returns a record, where the prover itself succeeds; the record has
\* public_key = secret_key*G, its journal challenge is
\* Hash(public_nonce, public_key, program id), its signature s satisfies
\* s*G = public_nonce + challenge*public_key, and verify() returns Ok.
C6_DlogCompleteness ==
    (origin = "prove_custom" /\ pc \in {"proved", "verified"}) =>
        /\ (Len(aux_input) = aux_input_len(program) /\ RunsFaithfully /\ oracle_ok)
              => proveRet.tag = "Ok"
        /\ proveRet.tag = "Ok" =>
              /\ record.public_key = secretKey
              /\ JournalChallenge =
                     compute_challenge(ImageId(program), record.public_nonce, record.public_key)
              /\ JournalSignature % CurveOrder =
                     (record.public_nonce + JournalChallenge * record.public_key) % CurveOrder
        /\ pc = "verified" => verifyRet = VerifyRet("Ok", 1)

\* the record prove_custom made for the largest secret key and the example
\* sudoku has verified
C6_Witness ==
    /\ pc = "verified"
    /\ origin = "prove_custom"
    /\ program = "DlogSudoku"
    /\ secretKey = CurveOrder - 1
    /\ AuxSolution(aux_input) = ExampleSolution
    /\ JournalChallenge # 0
    /\ verifyRet.ret = "Ok"

VerifyErrors ==
    { "Err: challenge bytes", "Err: journal challenge does not match",
      "Err: signature bytes", "Err: schnorr signature is invalid", "Err: receipt" }

\* C7: once a record has passed verify(), replacing its public_key, its
\* public_nonce, bytes 0..32 of its journal or bytes 32..64 of its journal
\* by a different value makes verify() return an error.
C7_TamperRejected ==
    (pc = "reverified" /\ tamper \in {"public_key", "public_nonce", "challenge", "signature"})
        => verifyRet.ret \in VerifyErrors

\* a record of prove_custom whose public key was replaced fails the
\* challenge check, while its receipt is still the prover's
C7_Witness ==
    /\ pc = "reverified"
    /\ tamper = "public_key"
    /\ origin = "prove_custom"
    /\ record.public_key # secretKey
    /\ ReceiptVerify(record.receipt, ImageId(program))
    /\ verifyRet.ret = "Err: journal challenge does not match"

\* the three checks of verify(), each stated on the record alone
ExpectedChallenge ==
    compute_challenge(ImageId(program), record.public_nonce, record.public_key)
ChallengeCheck ==
    Slice(dlog_journal(record), 0, 32) = Scalar_serialize(ExpectedChallenge)
SchnorrCheck ==
    Slice(dlog_journal(record), 32, 64) =
        Scalar_serialize(
            (record.public_nonce + record.public_key * ExpectedChallenge) % CurveOrder)
OracleCheck ==
    /\ record.receipt.seal.genuine
    /\ record.receipt.seal.image_id = ImageId(program)
    /\ record.receipt.seal.journal = record.receipt.journal

\* C8: on a record whose journal holds its 64 fixed bytes, verify() returns
\* Ok exactly when the challenge check, the Schnorr check and the oracle's
\* check all pass; the first of them that fails, in this order, decides the
\* error; the oracle is not consulted when the first or the second failed,
\* and is consulted once otherwise.
C8_VerifyOrder ==
    (pc \in {"verified", "reverified"} /\ Len(dlog_journal(record)) >= 64) =>
        LET check1 == ChallengeCheck
            check2 == SchnorrCheck
            check3 == OracleCheck
        IN  /\ verifyRet.ret = "Ok" <=> (check1 /\ check2 /\ check3)
            /\ ~check1 =>
                  /\ verifyRet.ret \in
                         {"Err: challenge bytes", "Err: journal challenge does not match"}
                  /\ verifyRet.oracle_calls = 0
            /\ (check1 /\ ~check2) =>
                  /\ verifyRet.ret \in
                         {"Err: signature bytes", "Err: schnorr signature is invalid"}
                  /\ verifyRet.oracle_calls = 0
            /\ (check1 /\ check2 /\ ~check3) => verifyRet = VerifyRet("Err: receipt", 1)
            /\ (check1 /\ check2 /\ check3) => verifyRet.oracle_calls = 1

\* a record whose receipt the oracle would accept and whose challenge is
\* the right one, signed with another key than the public key's: rejected
\* by the second check, the oracle not consulted
C8_Witness ==
    /\ pc = "verified"
    /\ origin = "from_bytes"
    /\ ChallengeCheck
    /\ ~SchnorrCheck
    /\ OracleCheck
    /\ verifyRet = VerifyRet("Err: schnorr signature is invalid", 0)

\* C9: prove_custom called with an aux_input whose length is not the
\* program's aux_input_len returns the length error, without a call of the
\* oracle and without a proof record.
C9_DlogRejectsAuxLength ==
    (origin = "prove_custom" /\ pc = "proved" /\ Len(aux_input) # aux_input_len(program)) =>
        /\ proveRet.tag = "Err"
        /\ proveRet.err = "aux_input length"
        /\ proveRet.oracle_calls = 0
        /\ proveRet.proof = NoProof
        /\ record = NoProof

\* variant B given one byte more than its 174, the prover able to run
C9_Witness ==
    /\ pc = "proved"
    /\ origin = "prove_custom"
    /\ program = "DlogSudoku"
    /\ oracle_ok
    /\ Len(aux_input) = aux_input_len(program) + 1
    /\ Slice(aux_input, 0, 174) = ExampleNonce \o ExampleMask \o ExampleSolution
    /\ proveRet.tag = "Err"

-----------------------------------------------------------------------------
(* The preimage engine applied to its inputs: a record is made by          *)
(* Sha256SudokuProof::new from a preimage, a solution and a mask, or by    *)
(* prove_custom from a preimage and an aux_input; verify() is called on it.*)

\* Preimages are 32 bytes of the same value 1..MaxPreimage.
MaxPreimage == 3

Preimages == { [k \in 1..ScalarLen |-> v] : v \in 1..MaxPreimage }
ShaSolutions ==
    { ExampleSolution, SwapRows(ExampleSolution, 0, 1), LatinBoard, ConstBoard(0) }
ShaMasks == BaseMasks \cup { [ExampleMask EXCEPT ![1] = 2] }

\* what prove_custom is handed directly: the aux_input new() would pack with
\* a nonce of the caller's, the same one byte shorter and one byte longer,
\* and nothing
ShaAuxInputs ==
    LET custom == ExampleNonce \o mask \o board
    IN  { custom, Slice(custom, 0, Len(custom) - 1), custom \o <<0>>, <<>> }

InitShaOf(programs) ==
    /\ pc = "start"
    /\ board \in ShaSolutions
    /\ mask \in ShaMasks
    /\ compact = ExampleCompact
    /\ compressed = NoBytes
    /\ decompressed = NoResult
    /\ puzzle = NoResult
    /\ valid = "none"
    /\ solves = "none"
    /\ program \in programs
    /\ secretKey = 0
    /\ preimage \in Preimages
    /\ aux_input = NoBytes
    /\ oracle_ok \in BOOLEAN
    /\ origin = "none"
    /\ proveRet = NoProveRet
    /\ record = NoShaProof
    /\ verifyRet = NoVerifyRet
    /\ tamper = "none"
    /\ env_ok = TRUE
    /\ oracle_later = TRUE
    /\ readRet = NoReadRet
    /\ secret = NoBytes
    /\ decryptRet = NoDecryptRet
    /\ schnorrArgs = NoSchnorrArgs
    /\ schnorrSig = NoBytes

InitSha == InitShaOf({"Sha256Sudoku"})

\* Sha256SudokuProof::new(preimage, &board, &mask), prover and executor
\* environment as in DlogProveIn
ShaNewIn(built, later) ==
    /\ pc = "start"
    /\ program = "Sha256Sudoku"
    /\ env_ok' = built
    /\ oracle_later' = later
    /\ aux_input' = sha_sudoku_aux_input(preimage, board, mask)
    /\ proveRet' = sha_sudoku_new(preimage, board, mask, built,
                                  LocalProver(<<oracle_ok, later>>))
    /\ record' = proveRet'.proof
    /\ origin' = "new"
    /\ pc' = "proved"
    /\ UNCHANGED <<readRet, secret, decryptRet, schnorrArgs, schnorrSig>>
    /\ UNCHANGED <<codecVars, program, secretKey, preimage, oracle_ok, verifyRet, tamper>>

\* the calls whose executor environment is built
ShaNew == ShaNewIn(TRUE, TRUE)

\* Sha256Proof::<P>::prove_custom(preimage, &aux), prover and executor
\* environment as in DlogProveIn
ShaProveCustomIn(aux, built, later) ==
    /\ pc = "start"
    /\ ~IsDlogProgram
    /\ env_ok' = built
    /\ oracle_later' = later
    /\ aux_input' = aux
    /\ proveRet' = sha_prove_custom(program, preimage, aux, built,
                                    LocalProver(<<oracle_ok, later>>))
    /\ record' = proveRet'.proof
    /\ origin' = "prove_custom"
    /\ pc' = "proved"
    /\ UNCHANGED <<readRet, secret, decryptRet, schnorrArgs, schnorrSig>>
    /\ UNCHANGED <<codecVars, program, secretKey, preimage, oracle_ok, verifyRet, tamper>>

\* the calls whose executor environment is built
ShaProveCustom(aux) == ShaProveCustomIn(aux, TRUE, TRUE)

\* the plaintexts a sender may have encrypted: encodings of valid and of
\* invalid boards, and bytes that are no canonical encoding
ForgedPlaintexts ==
    { compress_board(ExampleSolution), compress_board(SwapRows(ExampleSolution, 0, 1)),
      compress_board(LatinBoard), NinesCompact, BillionCompact }

\* the puzzles a sender may have written: the example's, and an empty one
ForgedPuzzles == { mask_sudoku_solution(ExampleSolution, ExampleMask).board, ConstBoard(0) }

\* journals of serialized records: 161 bytes laid out as the guest does for
\* key pre, one of these cut short or extended, and short ones
ShaRecordJournals(pre) ==
    LET laid_out ==
            { Sha256(pre) \o ExampleNonce \o shown
                  \o apply_keystream(pre, ExampleNonce, plain) :
              shown \in ForgedPuzzles, plain \in ForgedPlaintexts }
        honest == Sha256(pre) \o ExampleNonce
                      \o mask_sudoku_solution(ExampleSolution, ExampleMask).board
                      \o apply_keystream(pre, ExampleNonce, compress_board(ExampleSolution))
    IN  laid_out
        \cup { Slice(honest, 0, n) : n \in {0, 31, 32, 43, 124, 160} }
        \cup { honest \o <<0>> }

\* Sha256Proof::from_bytes(bytes), the bytes being the Borsh form of a
\* record with the given journal and a seal of the sender's making
ShaFromBytes(journal) ==
    /\ pc = "start"
    /\ ~IsDlogProgram
    /\ record' = [receipt |-> [journal |-> journal, seal |-> NoSeal]]
    /\ origin' = "from_bytes"
    /\ pc' = "proved"
    /\ UNCHANGED moreVars
    /\ UNCHANGED <<codecVars, program, secretKey, preimage, aux_input, oracle_ok,
                   proveRet, verifyRet, tamper>>

\* proof.verify() on the record at hand
ShaVerify ==
    /\ pc = "proved"
    /\ ~IsDlogProgram
    /\ origin = "from_bytes" \/ proveRet.tag = "Ok"
    /\ verifyRet' = sha_verify(program, record)
    /\ pc' = "verified"
    /\ UNCHANGED moreVars
    /\ UNCHANGED <<codecVars, program, secretKey, preimage, aux_input, oracle_ok, origin,
                   proveRet, record, tamper>>

\* proof.decrypt_solution(arg) on the record at hand
ShaDecrypt(arg) ==
    /\ pc = "proved"
    /\ ~IsDlogProgram
    /\ origin = "from_bytes" \/ proveRet.tag = "Ok"
    /\ secret' = arg
    /\ decryptRet' = sha_decrypt_solution(record, arg)
    /\ pc' = "decrypted"
    /\ UNCHANGED <<codecVars, engineVars, env_ok, oracle_later, readRet, schnorrArgs, schnorrSig>>

\* what a call of an accessor gives: its bytes, or a panic where it slices
\* past the end of the journal
ReadOk(bytes) == [tag |-> "Ok", bytes |-> bytes]
ReadPanic == [tag |-> "Panic", bytes |-> <<>>]

\* proof.hash() and proof.puzzle() on the record at hand
ShaRead ==
    /\ pc = "proved"
    /\ ~IsDlogProgram
    /\ origin = "from_bytes" \/ proveRet.tag = "Ok"
    /\ readRet' =
          [tag |-> "read",
           hash |-> IF Len(sha_journal(record)) < 32 THEN ReadPanic
                    ELSE ReadOk(sha_hash(record)),
           puzzle |-> IF Len(sha_journal(record)) < 32 + 12 + 81 THEN ReadPanic
                      ELSE ReadOk(sha_sudoku_puzzle(record))]
    /\ pc' = "read"
    /\ UNCHANGED <<codecVars, engineVars, env_ok, oracle_later, secret, decryptRet, schnorrArgs,
                   schnorrSig>>

NextSha ==
    \/ ShaNew
    \/ /\ pc = "start"
       /\ \E aux \in ShaAuxInputs : ShaProveCustom(aux)
    \/ /\ pc = "start"
       /\ \E journal \in ShaRecordJournals(preimage) : ShaFromBytes(journal)
    \/ ShaVerify
    \/ \E arg \in Preimages : ShaDecrypt(arg)
    \/ ShaRead

SpecSha == InitSha /\ [][NextSha]_vars

\* the cells a puzzle shows are the board's (stated on the cells, as the
\* spec's solves_puzzle)
SolvesPuzzle(solution, shown) ==
    \A k \in 1..BoardLen : shown[k] = 0 \/ shown[k] = solution[k]

IsValidSolution(b) == \A unit \in Units : EachDigitOnce(b, unit)

-----------------------------------------------------------------------------
(* Properties of the preimage engine, checked under SpecSha.               *)

\* C10: Sha256Proof::prove_custom called with an aux_input whose length is
\* not the program's aux_input_len returns the length error and makes no
\* call of the oracle.
C10_ShaRejectsAuxLength ==
    (origin = "prove_custom" /\ pc = "proved" /\ Len(aux_input) # aux_input_len(program)) =>
        /\ proveRet.tag = "Err"
        /\ proveRet.err = "aux_input length"
        /\ proveRet.oracle_calls = 0

\* C12: for every preimage, every valid solution s and every mask m of
\* zeros and ones, decrypt_solution(preimage) on the record returned by
\* Sha256SudokuProof::new(preimage, s, m) returns Ok(s); s is a valid
\* solution and solves puzzle().
C12_DecryptRoundTrip ==
    (pc = "decrypted" /\ origin = "new" /\ secret = preimage) =>
        /\ decryptRet.tag = "Ok"
        /\ decryptRet.board = board
        /\ IsValidSolution(decryptRet.board)
        /\ SolvesPuzzle(decryptRet.board, sha_sudoku_puzzle(record))

\* the example of the repository with two rows of the solution exchanged
C12_Witness ==
    /\ pc = "decrypted"
    /\ origin = "new"
    /\ secret = preimage
    /\ board = SwapRows(ExampleSolution, 0, 1)
    /\ mask = TestMask
    /\ decryptRet.tag = "Ok"
    /\ decryptRet.board = board

\* what the argument of decrypt_solution decrypts the record's ciphertext to
\* (records of full length only)
Deciphered == apply_keystream(secret, sha_chacha_nonce(record), sha_encrypted_solution(record))

\* C13: decrypt_solution with a secret whose SHA-256 differs from the hash
\* in the journal fails with the secret-mismatch error, and nothing else of
\* decrypt_solution has run by then: no cipher, no decoding; the error is
\* this one whatever else is wrong with the record.
C13_SecretMismatchFirst ==
    (/\ pc = "decrypted"
     /\ Len(sha_journal(record)) >= 32
     /\ Sha256(secret) # sha_hash(record)) =>
        /\ decryptRet.tag = "Err"
        /\ decryptRet.err = "preimage does not match hash in proof journal"
        /\ decryptRet.steps = <<"hash">>
        /\ decryptRet.board = <<>>

\* a received record of full length, decrypted with a secret that does not
\* hash to the journal's hash and under which the ciphertext is no
\* canonical encoding either
C13_Witness ==
    /\ pc = "decrypted"
    /\ origin = "from_bytes"
    /\ Len(sha_journal(record)) = 32 + 12 + 81 + CompactLen
    /\ Sha256(secret) # sha_hash(record)
    /\ decompress_board(Deciphered).tag = "Err"
    /\ decryptRet.err = "preimage does not match hash in proof journal"

\* the nine digits of row i of a canonical compact board
DigitsOfRow(c, i) == DecompressRow(U32Value(CompactRow(c, i)), 9)

\* the board a canonical compact board stands for, row after row
DigitsOfRows(c) ==
    DigitsOfRow(c, 0) \o DigitsOfRow(c, 1) \o DigitsOfRow(c, 2) \o DigitsOfRow(c, 3)
        \o DigitsOfRow(c, 4) \o DigitsOfRow(c, 5) \o DigitsOfRow(c, 6)
        \o DigitsOfRow(c, 7) \o DigitsOfRow(c, 8)

\* every row value of the deciphered bytes is a number of nine digits
CanonicalRows(c) == \A i \in 0..8 : ~U32GreaterThan(CompactRow(c, i), MaxRowValue)

\* C14: for any record of variant C with a journal of the right size,
\* verified or not, decrypt_solution returns Ok(board) only if the board is
\* a valid solution and solves puzzle(); with the right secret, bytes that
\* are no canonical encoding give the decoding error; a canonical encoding
\* of an invalid board gives the invalid-board error; a valid board that
\* does not solve puzzle() gives the wrong-puzzle error; in that order.
C14_DecryptGuards ==
    (/\ pc = "decrypted"
     /\ Len(sha_journal(record)) = 32 + 12 + 81 + CompactLen) =>
        LET plain == Deciphered
            decoded == DigitsOfRows(plain)
            shown == sha_sudoku_puzzle(record)
        IN  /\ decryptRet.tag \in {"Ok", "Err"}
            /\ decryptRet.tag = "Ok" =>
                  /\ IsValidSolution(decryptRet.board)
                  /\ SolvesPuzzle(decryptRet.board, shown)
                  /\ compress_board(decryptRet.board) = plain
            /\ Sha256(secret) = sha_hash(record) =>
                  /\ ~CanonicalRows(plain) =>
                        /\ decryptRet.tag = "Err"
                        /\ decryptRet.err = "malleable encoding"
                  /\ (CanonicalRows(plain) /\ ~IsValidSolution(decoded)) =>
                        /\ decryptRet.tag = "Err"
                        /\ decryptRet.err = "decrypted solution is not valid"
                  /\ (CanonicalRows(plain) /\ IsValidSolution(decoded)
                        /\ ~SolvesPuzzle(decoded, shown)) =>
                        /\ decryptRet.tag = "Err"
                        /\ decryptRet.err = "decrypted solution is for the wrong puzzle"
                  /\ (CanonicalRows(plain) /\ IsValidSolution(decoded)
                        /\ SolvesPuzzle(decoded, shown)) =>
                        decryptRet.tag = "Ok"

\* an unverified record whose plaintext is the canonical encoding of an
\* invalid board that does not fit the puzzle either: the error is the
\* invalid-board one
C14_Witness ==
    /\ pc = "decrypted"
    /\ origin = "from_bytes"
    /\ Len(sha_journal(record)) = 32 + 12 + 81 + CompactLen
    /\ Sha256(secret) = sha_hash(record)
    /\ Deciphered = compress_board(LatinBoard)
    /\ ~SolvesPuzzle(LatinBoard, sha_sudoku_puzzle(record))
    /\ decryptRet.err = "decrypted solution is not valid"

\* a valid board for another puzzle is refused as such
C14_WitnessWrongPuzzle ==
    /\ pc = "decrypted"
    /\ origin = "from_bytes"
    /\ Len(sha_journal(record)) = 32 + 12 + 81 + CompactLen
    /\ Sha256(secret) = sha_hash(record)
    /\ Deciphered = compress_board(SwapRows(ExampleSolution, 0, 1))
    /\ decryptRet.err = "decrypted solution is for the wrong puzzle"

\* bytes that are no canonical encoding are refused as such
C14_WitnessMalleable ==
    /\ pc = "decrypted"
    /\ origin = "from_bytes"
    /\ Len(sha_journal(record)) = 32 + 12 + 81 + CompactLen
    /\ Sha256(secret) = sha_hash(record)
    /\ Deciphered = BillionCompact
    /\ decryptRet.err = "malleable encoding"

\* C15: on a record returned by Sha256SudokuProof::new(preimage, s, m),
\* puzzle() is s with the cells where m is 0 blanked, and hash() is the
\* SHA-256 of the preimage: host and guest agree on the journal layout.
C15_LayoutAgreement ==
    (pc = "read" /\ origin = "new") =>
        /\ readRet.puzzle = ReadOk([k \in 1..BoardLen |-> IF mask[k] = 1 THEN board[k] ELSE 0])
        /\ readRet.hash = ReadOk(Sha256(preimage))

\* the accessors read on a record of a puzzle with shown and blank cells
C15_Witness ==
    /\ pc = "read"
    /\ origin = "new"
    /\ board = ExampleSolution
    /\ mask = ExampleMask
    /\ readRet.puzzle.tag = "Ok"
    /\ \E k \in 1..BoardLen : readRet.puzzle.bytes[k] = 0
    /\ \E k \in 1..BoardLen : readRet.puzzle.bytes[k] # 0
    /\ readRet.hash.bytes = Sha256(preimage)

\* what the code does instead: given one byte more than the 174 declared,
\* prove_custom calls the oracle and returns a record that verifies
C10_Accepted ==
    /\ pc = "verified"
    /\ origin = "prove_custom"
    /\ Len(aux_input) = aux_input_len(program) + 1
    /\ proveRet.tag = "Ok"
    /\ proveRet.oracle_calls = 1
    /\ verifyRet.ret = "Ok"

-----------------------------------------------------------------------------
(* Both engines side by side: records are made by prove_custom and new(),  *)
(* for the three programs and for the two whose descriptor is out of step  *)
(* with its ELF, or come from bytes; verify() and the accessors are called *)
(* on them, and a proving run is repeated on the same inputs.              *)

\* journals of serialized discrete-log records around the points
\* public_key = public_nonce = G: the challenge verify() will compute, a
\* signature and an appendix of the declared length, and this cut short
DlogRecordJournals(P) ==
    LET laid_out == Scalar_serialize(compute_challenge(ImageId(P), 1, 1))
                        \o Scalar_serialize(1) \o [k \in 1..appendix_len(P) |-> 0]
    IN  { Slice(laid_out, 0, n) : n \in {0, 31, 32, 63, 64, Len(laid_out)} }

\* Secp256k1DlogProof::from_bytes(bytes), the bytes being the Borsh form of
\* two points and a receipt with the given journal and a seal of the
\* sender's making
DlogFromBytes(journal) ==
    /\ pc = "start"
    /\ IsDlogProgram
    /\ record' = [public_key |-> 1, public_nonce |-> 1,
                  receipt |-> [journal |-> journal, seal |-> NoSeal]]
    /\ origin' = "from_bytes"
    /\ pc' = "proved"
    /\ UNCHANGED moreVars
    /\ UNCHANGED <<codecVars, program, secretKey, preimage, aux_input, oracle_ok,
                   proveRet, verifyRet, tamper>>

\* proof.challenge(), proof.signature() and proof.appendix() on the record
\* at hand
DlogRead ==
    /\ pc = "proved"
    /\ IsDlogProgram
    /\ origin = "prove_custom" => proveRet.tag = "Ok"
    /\ readRet' =
          [tag |-> "read",
           challenge |-> IF Len(dlog_journal(record)) < 32 THEN ReadPanic
                         ELSE [tag |-> dlog_challenge(record).tag,
                               bytes |-> Slice(dlog_journal(record), 0, 32)],
           signature |-> IF Len(dlog_journal(record)) < 64 THEN ReadPanic
                         ELSE [tag |-> dlog_signature(record).tag,
                               bytes |-> Slice(dlog_journal(record), 32, 64)],
           appendix |-> IF Len(dlog_journal(record)) < 64 THEN ReadPanic
                        ELSE ReadOk(Slice(dlog_journal(record), 64,
                                          Len(dlog_journal(record))))]
    /\ pc' = "read"
    /\ UNCHANGED <<codecVars, engineVars, env_ok, oracle_later, secret, decryptRet, schnorrArgs,
                   schnorrSig>>

InitRecords ==
    \/ InitDlogOf(DlogPrograms \cup {"StaleDlog"})
    \/ InitShaOf({"Sha256Sudoku", "StaleSha256"})

\* what the prover would answer if it were asked again, drawn where its
\* first answer is a failure
LaterAnswers == IF oracle_ok THEN {TRUE} ELSE BOOLEAN

NextRecords ==
    \/ \E built \in BOOLEAN, later \in LaterAnswers : DlogProveIn(built, later)
    \/ \E image \in DlogPrograms, public_key \in 1..MaxForge, public_nonce \in 1..MaxForge,
          d \in 1..MaxForge, r \in 1..MaxForge :
          DlogForge(image, public_key, public_nonce, d, r, TRUE, 0)
    \/ DlogVerify
    \/ \E built \in BOOLEAN, later \in LaterAnswers : ShaNewIn(built, later)
    \/ /\ pc = "start"
       /\ \E aux \in ShaAuxInputs, built \in BOOLEAN, later \in LaterAnswers :
             ShaProveCustomIn(aux, built, later)
    \/ ShaVerify
    \/ /\ pc = "start"
       /\ IsDlogProgram
       /\ \E journal \in DlogRecordJournals(program) : DlogFromBytes(journal)
    \/ DlogRead
    \/ /\ pc = "start"
       /\ ~IsDlogProgram
       /\ \E journal \in ShaRecordJournals(preimage) : ShaFromBytes(journal)
    \/ \E arg \in Preimages : ShaDecrypt(arg)
    \/ ShaRead

SpecRecords == InitRecords /\ [][NextRecords]_vars

-----------------------------------------------------------------------------
(* Properties of both engines, checked under SpecRecords.                  *)

\* the length the engine expects of the journal: 64 or 32 fixed bytes, and
\* the appendix
ExpectedJournalLen == (IF IsDlogProgram THEN 64 ELSE 32) + appendix_len(program)

NoRecord == IF IsDlogProgram THEN NoProof ELSE NoShaProof

\* C11: prove_custom returns a record only when the journal the oracle
\* returned has exactly the expected length (64 + appendix_len in the
\* discrete-log engine, 32 + appendix_len in the preimage engine), and the
\* record then holds that journal as the oracle attested it; when the oracle
\* succeeded with a journal of another length, the result is the
\* journal-length error and there is no record.
C11_JournalLength ==
    (pc = "proved" /\ origin \in {"prove_custom", "new"}) =>
        /\ proveRet.tag = "Ok" =>
              /\ Len(record.receipt.journal) = ExpectedJournalLen
              /\ record.receipt.journal = record.receipt.seal.journal
              /\ record.receipt.seal.genuine
        /\ program \in StalePrograms =>
              /\ proveRet.tag = "Err"
              /\ proveRet.proof = NoRecord
              /\ record = NoRecord
              /\ (proveRet.oracle_calls = 1 /\ oracle_ok /\ proveRet.err # "prover")
                    => proveRet.err = "journal length"

\* the preimage engine run on the program that declares one byte less than
\* its guest commits: the oracle succeeded and the result is the length error
C11_Witness ==
    /\ pc = "proved"
    /\ origin = "prove_custom"
    /\ program = "StaleSha256"
    /\ oracle_ok
    /\ proveRet.oracle_calls = 1
    /\ proveRet.err = "journal length"
    /\ record = NoShaProof

\* the same in the discrete-log engine
C11_WitnessDlog ==
    /\ pc = "proved"
    /\ origin = "prove_custom"
    /\ program = "StaleDlog"
    /\ proveRet.err = "journal length"
    /\ record = NoProof

\* the input prove_custom writes for the guest
GuestInput ==
    IF IsDlogProgram
    THEN LET secret_nonce ==
                 Scalar_reduce_from(Sha256(ImageId(program) \o Scalar_serialize(secretKey)
                                           \o aux_input \o NonceTag))
             challenge == compute_challenge(ImageId(program), ScalarTimesG(secret_nonce),
                                            ScalarTimesG(secretKey))
         IN  Scalar_serialize(secretKey) \o Scalar_serialize(secret_nonce)
                 \o Scalar_serialize(challenge) \o aux_input
    ELSE preimage \o aux_input

\* the solution handed to the guest is not valid, or its mask has a byte
\* other than 0 and 1
BadSudokuInput ==
    \/ ~IsValidSolution(AuxSolution(aux_input))
    \/ \E k \in 1..BoardLen : AuxMask(aux_input)[k] \notin {0, 1}

\* C17: in the sudoku guests (variants B and C) nothing is committed before
\* the validity assertion and the masking have succeeded: with an invalid
\* solution or a mask byte other than 0 and 1 the guest aborts with an empty
\* journal, the oracle attests nothing, and prove_custom and
\* Sha256SudokuProof::new return an error and no record.
C17_AbortCommitsNothing ==
    (/\ pc = "proved"
     /\ origin \in {"new", "prove_custom"}
     /\ program \in {"DlogSudoku", "Sha256Sudoku"}
     /\ Len(aux_input) = aux_input_len(program)
     /\ BadSudokuInput) =>
        LET run == Guest(program, GuestInput)
        IN  /\ run.tag = "Panic"
            /\ run.journal = <<>>
            /\ proveRet.tag = "Err"
            /\ proveRet.err = IF env_ok THEN "prover" ELSE "executor env"
            /\ proveRet.proof = NoRecord
            /\ record = NoRecord
            /\ ~record.receipt.seal.genuine
            /\ record.receipt.journal = <<>>

\* Sha256SudokuProof::new with a solution whose boxes repeat digits, the
\* oracle being willing
C17_Witness ==
    /\ pc = "proved"
    /\ origin = "new"
    /\ program = "Sha256Sudoku"
    /\ oracle_ok
    /\ env_ok
    /\ proveRet.err = "prover"
    /\ board = LatinBoard
    /\ mask = ExampleMask
    /\ AuxSolution(aux_input) = LatinBoard
    /\ proveRet.tag = "Err"
    /\ record = NoShaProof

\* variant B with a mask byte of 2
C17_WitnessMask ==
    /\ pc = "proved"
    /\ program = "DlogSudoku"
    /\ oracle_ok
    /\ Len(aux_input) = aux_input_len(program)
    /\ IsValidSolution(AuxSolution(aux_input))
    /\ \E k \in 1..BoardLen : AuxMask(aux_input)[k] = 2
    /\ proveRet.tag = "Err"
    /\ record = NoProof

\* prove_custom has returned (through new() too)
Returned == pc = "proved" /\ origin \in {"new", "prove_custom"}

\* the input was rejected before anything else: only the discrete-log
\* engine does so, on the length of aux_input
InputRejected == IsDlogProgram /\ Len(aux_input) # aux_input_len(program)

\* C18 as claimed: a call of prove_custom invokes the oracle's prove at most
\* once: not at all when the input is rejected first, otherwise exactly
\* once; when the oracle fails the call returns that error at once, with no
\* second attempt and no record; every error ends the call.
C18_OracleCalledOnce ==
    Returned =>
        /\ proveRet.oracle_calls = IF InputRejected THEN 0 ELSE 1
        /\ (~InputRejected /\ ~oracle_ok) =>
              /\ proveRet.tag = "Err"
              /\ proveRet.err = "prover"
              /\ record = NoRecord
        /\ proveRet.tag = "Err" => record = NoRecord

\* what the code does instead: the input is accepted, the executor
\* environment cannot be built, and the call returns that error without
\* having asked the prover
C18_NotAsked ==
    /\ Returned
    /\ ~InputRejected
    /\ ~env_ok
    /\ proveRet.tag = "Err"
    /\ proveRet.err = "executor env"
    /\ proveRet.oracle_calls = 0

\* C18 as amended: a call of prove_custom invokes the oracle's prove at most
\* once: not at all when the input is rejected first or the executor
\* environment cannot be built, otherwise exactly once; when the oracle
\* fails on that invocation the call returns the prover's error, also where
\* the prover would succeed if asked again, and no record; every error ends
\* the call with no record, and a record is returned only when input,
\* environment and prover were all in order.
C18_OracleCalledOnceIfBuilt ==
    Returned =>
        /\ proveRet.oracle_calls = IF InputRejected \/ ~env_ok THEN 0 ELSE 1
        /\ InputRejected => (proveRet.tag = "Err" /\ proveRet.err = "aux_input length")
        /\ (~InputRejected /\ ~env_ok) =>
              (proveRet.tag = "Err" /\ proveRet.err = "executor env")
        /\ (~InputRejected /\ env_ok /\ ~oracle_ok) =>
              (proveRet.tag = "Err" /\ proveRet.err = "prover")
        /\ proveRet.tag = "Err" => (proveRet.proof = NoRecord /\ record = NoRecord)
        /\ proveRet.tag = "Ok" => (~InputRejected /\ env_ok /\ oracle_ok)

\* the prover fails when asked and would succeed if asked again: one
\* invocation, the prover's error, no record
C18_Witness ==
    /\ Returned
    /\ IsDlogProgram
    /\ ~InputRejected
    /\ env_ok
    /\ ~oracle_ok
    /\ oracle_later
    /\ proveRet.oracle_calls = 1
    /\ proveRet.err = "prover"
    /\ record = NoProof

\* the same in the preimage engine
C18_WitnessSha ==
    /\ Returned
    /\ ~IsDlogProgram
    /\ env_ok
    /\ ~oracle_ok
    /\ oracle_later
    /\ proveRet.oracle_calls = 1
    /\ proveRet.err = "prover"
    /\ record = NoShaProof

\* an input rejected before the prover is asked
C18_WitnessRejected ==
    /\ Returned
    /\ InputRejected
    /\ proveRet.oracle_calls = 0
    /\ proveRet.tag = "Err"

\* a record exists: prove_custom or new returned one, or from_bytes did
HasRecord == pc # "start" /\ (origin = "from_bytes" \/ proveRet.tag = "Ok")

\* no call made on the record has aborted
NoCallAborted ==
    /\ verifyRet.ret # "Panic"
    /\ decryptRet.tag # "Panic"
    /\ readRet.tag = "read" =>
          IF IsDlogProgram
          THEN /\ readRet.challenge # ReadPanic
               /\ readRet.signature # ReadPanic
               /\ readRet.appendix # ReadPanic
          ELSE /\ readRet.hash # ReadPanic
               /\ readRet.puzzle # ReadPanic

\* C20: every record on which verify() or an accessor can be called, from
\* prove_custom or from from_bytes, has a journal of exactly the variant's
\* length (64 + appendix_len, 32 + appendix_len), and challenge(),
\* signature(), appendix(), hash(), puzzle(), verify() and
\* decrypt_solution() never read past its end and never abort.
C20_JournalFullLength ==
    HasRecord =>
        /\ Len(record.receipt.journal) = ExpectedJournalLen
        /\ NoCallAborted

\* what the code does instead: from_bytes returns a record with an empty
\* journal, and verify() on it aborts
C20_Aborts ==
    /\ pc = "verified"
    /\ origin = "from_bytes"
    /\ program = "DlogSha256"
    /\ record.receipt.journal = <<>>
    /\ verifyRet.ret = "Panic"

\* the same in the preimage engine: decrypt_solution aborts on a journal
\* that ends inside the ciphertext
C20_AbortsDecrypt ==
    /\ pc = "decrypted"
    /\ origin = "from_bytes"
    /\ program = "Sha256Sudoku"
    /\ Len(record.receipt.journal) = 32 + 12 + 81 + CompactLen - 1
    /\ Sha256(secret) = sha_hash(record)
    /\ decryptRet.tag = "Panic"

\* the accessors abort too
C20_AbortsRead ==
    /\ pc = "read"
    /\ origin = "from_bytes"
    /\ \/ IsDlogProgram /\ readRet.challenge = ReadPanic
       \/ ~IsDlogProgram /\ readRet.puzzle = ReadPanic /\ readRet.hash # ReadPanic

\* the records of prove_custom and new are of the right length and no call
\* on them aborts
C20_ProvedRecords ==
    (HasRecord /\ origin \in {"prove_custom", "new"}) =>
        /\ Len(record.receipt.journal) = ExpectedJournalLen
        /\ NoCallAborted

-----------------------------------------------------------------------------
(* schnorr_signature on the 32-byte strings a guest may read: the guest    *)
(* takes them from its input as they are, reduced or not.                  *)

\* values of a 32-byte input: small ones, the largest reduced one, the
\* curve order itself and the largest value the bytes can hold
SchnorrValues == {0, 1, MaxKey, CurveOrder - 1, CurveOrder, MaxByte}

InitSchnorr ==
    /\ pc = "start"
    /\ board = ExampleSolution
    /\ mask = ExampleMask
    /\ compact = ExampleCompact
    /\ compressed = NoBytes
    /\ decompressed = NoResult
    /\ puzzle = NoResult
    /\ valid = "none"
    /\ solves = "none"
    /\ program = "none"
    /\ secretKey = 0
    /\ preimage = NoBytes
    /\ aux_input = NoBytes
    /\ oracle_ok = TRUE
    /\ origin = "none"
    /\ proveRet = NoProveRet
    /\ record = NoProof
    /\ verifyRet = NoVerifyRet
    /\ tamper = "none"
    /\ env_ok = TRUE
    /\ oracle_later = TRUE
    /\ readRet = NoReadRet
    /\ secret = NoBytes
    /\ decryptRet = NoDecryptRet
    /\ schnorrArgs \in { [secret_key |-> Bytes32(d), secret_nonce |-> Bytes32(r),
                          challenge |-> Bytes32(e)] :
                         d \in SchnorrValues, r \in SchnorrValues, e \in SchnorrValues }
    /\ schnorrSig = NoBytes

\* schnorr_signature(secret_key, secret_nonce, challenge)
Sign ==
    /\ pc = "start"
    /\ schnorrArgs # NoSchnorrArgs
    /\ schnorrSig' = schnorr_signature(schnorrArgs.secret_key, schnorrArgs.secret_nonce,
                                       schnorrArgs.challenge)
    /\ pc' = "signed"
    /\ UNCHANGED <<codecVars, engineVars, env_ok, oracle_later, readRet, secret, decryptRet,
                   schnorrArgs>>

NextSchnorr == Sign

SpecSchnorr == InitSchnorr /\ [][NextSchnorr]_vars

\* the integers the three inputs and the result encode
SignedKey == U256_from_be_bytes(schnorrArgs.secret_key)
SignedNonce == U256_from_be_bytes(schnorrArgs.secret_nonce)
SignedChallenge == U256_from_be_bytes(schnorrArgs.challenge)
SignedValue == U256_from_be_bytes(schnorrSig)

\* C19: for every triple of 32-byte inputs, reduced below the curve order
\* or not, schnorr_signature returns the 32 bytes of
\* (secret_nonce + challenge * secret_key) mod n, a value below n.
C19_SignatureCanonical ==
    pc = "signed" =>
        /\ Len(schnorrSig) = ScalarLen
        /\ SignedValue < CurveOrder
        /\ SignedValue = (SignedNonce + SignedChallenge * SignedKey) % CurveOrder

\* what the code does instead: with the nonce not reduced and the product
\* close to n, the sum less n once is still n or more
C19_NotReduced ==
    /\ pc = "signed"
    /\ SignedNonce = MaxByte
    /\ SignedChallenge = CurveOrder - 1
    /\ SignedKey = 1
    /\ SignedValue = MaxByte - 1
    /\ SignedValue >= CurveOrder

\* with a nonce below n the result is the canonical one, whatever the key
\* and the challenge
C19_ReducedNonce ==
    (pc = "signed" /\ SignedNonce < CurveOrder) =>
        /\ SignedValue < CurveOrder
        /\ SignedValue = (SignedNonce + SignedChallenge * SignedKey) % CurveOrder

=============================================================================
